---- MODULE Spec2Model ----
(***************************************************************************)
(* Finite State Entropy (tANS) codec of the stanford_compression_library   *)
(* C++ port: parameter normalization, table construction, the block        *)
(* encode/decode state machines, the bit writers/readers and the frame     *)
(* codec, modelled from cpp/src/fse.cpp, cpp/src/frame.cpp and             *)
(* cpp/include/scl/fse/bitio.hpp.                                          *)
(*                                                                         *)
(* Vectors indexed by symbol (counts, normalized, symTT ...) are functions *)
(* over 0..n-1, byte buffers are sequences of numbers in 0..255, and the   *)
(* 64-bit accumulators of the LSB writers are functions 0..63 -> {0,1}.    *)
(***************************************************************************)
EXTENDS Integers, Sequences, FiniteSets, TLC

(***************************************************************************)
(* Bounds of the model.                                                    *)
(***************************************************************************)
\* alphabet size of the histograms that are explored (the frame uses 256)
NumSymbols == 3
\* largest single count of a histogram given to FSEParams directly
MaxCount == 3
\* symbols of the wider histograms given to the parameter construction alone
WideSymbols == 5
\* largest table_log handed to the FSEParams constructor on its own
MaxTableLogIn == 18
\* largest table_log for which tables are built and blocks are coded
MaxTableLog == 4
\* longest symbol block handed to a block encoder
MaxLen == 4
\* largest FrameOptions.block_size
MaxBlockSize == 3
\* longest input of encode_stream
MaxInputLen == 3
\* number of append_bits calls made on a writer before it is finished
MaxAppends == 4
\* most append_bits calls whose bits are read afterwards
MaxReadBack == 3
\* longest input whose frame is damaged before it is decoded
MaxDamagedLen == 2
\* largest table_log of a frame that is damaged before it is decoded
MaxDamagedTableLog == 2
\* the bits of a payload's block_size field that are flipped: those below this
FlippedSizeBits == 3
\* bytes that may follow the size field of the payload of a buffer handed to
\* decode_stream directly
MaxTail == 2

(***************************************************************************)
(* Program constants.                                                      *)
(***************************************************************************)
kMaxTableLog == 15
kDataBlockSizeBits == 32
kAcceptedTableLog == 16

VARIABLES
    pc,          \* position of the driver of the specification at hand
    counts,      \* histogram handed to FSEParams
    table_log,   \* table_log handed to FSEParams
    params,      \* the FSEParams value, or the error its constructor threw
    tables,      \* the FSETables value built from params
    symbols,     \* block codec: the symbols of the block
    ordering,    \* block codec: "msb", "lsb8" or "lsbwide"
    pad,         \* byte value found behind the end of a buffer that is over-read
    encoded,     \* block codec: EncodedBlock and what the encoder did
    decoded,     \* block codec: DecodeResult and what the decoder did
    writers,     \* bit writers: the four writers, fed the same calls
    appended,    \* bit writers: the (value, nbits) calls made so far
    finished,    \* bit writers: what finish returned for each writer
    readers,     \* bit readers: one over each writer's bytes, and what each read
    input,       \* frame codec: the input bytes
    opts,        \* frame codec: FrameOptions
    enc_pos,     \* frame codec: encode_stream's pos
    frame,       \* frame codec: EncodedFrame.bytes
    written,     \* frame codec: what was written, one entry per record
    dec_pos,     \* frame codec: decode_stream's pos
    output,      \* frame codec: decode_stream's output vector
    visited,     \* frame codec: what the decoder did, one entry per record
    buffer,      \* frame codec: the bytes handed to decode_stream
    dec_opts,    \* frame codec: the FrameOptions handed to decode_stream
    damage       \* frame codec: what was done to the frame before decoding

vars == <<pc, counts, table_log, params, tables, symbols, ordering, pad, encoded,
          decoded, writers, appended, finished, readers, input, opts, enc_pos, frame,
          written, dec_pos, output, visited, buffer, dec_opts, damage>>

paramVars == <<counts, table_log, params>>
blockVars == <<symbols, ordering, pad, encoded, decoded>>
writerVars == <<writers, appended, finished, readers>>
frameVars == <<input, opts, enc_pos, frame, written, dec_pos, output, visited,
               buffer, dec_opts, damage>>

NoValue == [none |-> TRUE]

\* the frame reaches decode_stream as encode_stream returned it
NoDamage == [kind |-> "none"]

(***************************************************************************)
(* Arithmetic helpers.                                                     *)
(***************************************************************************)
Max(a, b) == IF a >= b THEN a ELSE b
Min(a, b) == IF a <= b THEN a ELSE b

Size(v) == Cardinality(DOMAIN v)

RECURSIVE SumUpTo(_, _)
SumUpTo(v, n) == IF n = 0 THEN 0 ELSE v[n - 1] + SumUpTo(v, n - 1)

\* std::accumulate over a vector
Accumulate(v) == SumUpTo(v, Size(v))

RECURSIVE floor_log2(_)
floor_log2(x) == IF x <= 1 THEN 0 ELSE 1 + floor_log2(x \div 2)

\* round_ties_to_even of the quotient num / den (den > 0).  The code forms the
\* quotient as a double; with the operands of this model (below 2^31) the
\* double quotient lies on the same side of every integer and of every
\* half-integer as the exact one.
round_ties_to_even(num, den) ==
    LET floor_x == num \div den
        rem == num % den
    IN  IF 2 * rem > den THEN floor_x + 1
        ELSE IF 2 * rem < den THEN floor_x
        ELSE IF floor_x % 2 = 1 THEN floor_x + 1
        ELSE floor_x

(***************************************************************************)
(* FSEParams: normalization of a histogram onto table_size states.         *)
(***************************************************************************)
\* the symbols in stable descending-count order (std::iota + stable_sort)
SymbolOrder(cnt) ==
    LET n == Size(cnt)
        Before(a, b) == cnt[a] > cnt[b] \/ (cnt[a] = cnt[b] /\ a < b)
        Rank(a) == Cardinality({b \in 0..(n - 1) : Before(b, a)})
    IN  [i \in 1..n |-> CHOOSE a \in 0..(n - 1) : Rank(a) = i - 1]

\* initial proportional allocation: round to even, at least 1 for a symbol seen
InitialAllocation(cnt, tsize) ==
    LET total == Accumulate(cnt)
    IN  [s \in DOMAIN cnt |->
            IF cnt[s] = 0 THEN 0
            ELSE Max(1, round_ties_to_even(cnt[s] * tsize, total))]

\* the first adjustment loop: the step is applied to symbols[idx] for as long
\* as the entry stays positive; idx moves on only when it cannot be applied
RECURSIVE FirstAdjust(_, _, _, _, _)
FirstAdjust(norm, diff, idx, order, step) ==
    IF diff = 0 \/ idx > Len(order) THEN norm
    ELSE LET s == order[idx]
             candidate == norm[s] + step
         IN  IF candidate > 0
             THEN FirstAdjust([norm EXCEPT ![s] = candidate], diff - step, idx,
                              order, step)
             ELSE FirstAdjust(norm, diff, idx + 1, order, step)

\* one walk over sym_order of the second adjustment loop
RECURSIVE RepeatWalk(_, _, _)
RepeatWalk(st, k, order) ==
    IF k > Len(order) THEN st
    ELSE LET idx == order[k]
             nxt == IF st.diff > 0
                    THEN [norm |-> [st.norm EXCEPT ![idx] = @ + 1],
                          diff |-> st.diff - 1, changed |-> TRUE]
                    ELSE IF st.norm[idx] > 1
                    THEN [norm |-> [st.norm EXCEPT ![idx] = @ - 1],
                          diff |-> st.diff + 1, changed |-> TRUE]
                    ELSE st
         IN  IF nxt.diff = 0 THEN nxt ELSE RepeatWalk(nxt, k + 1, order)

\* the second adjustment loop: walks are repeated until the gap is closed or a
\* walk changes nothing
RECURSIVE RepeatAdjust(_, _, _)
RepeatAdjust(norm, diff, order) ==
    IF diff = 0 THEN norm
    ELSE LET r == RepeatWalk([norm |-> norm, diff |-> diff, changed |-> FALSE],
                             1, order)
         IN  IF ~r.changed THEN r.norm ELSE RepeatAdjust(r.norm, r.diff, order)

\* std::max_element: the first symbol holding the largest count
MaxElement(cnt) ==
    CHOOSE b \in DOMAIN cnt :
        \A o \in DOMAIN cnt : cnt[o] < cnt[b] \/ (cnt[o] = cnt[b] /\ b <= o)

\* LastResort without the normalized.assign(normalized.size(), 0) before it:
\* the other symbols keep the 1 they were left with
LastResortKeepingOthers(cnt, tsize) ==
    [s \in DOMAIN cnt |->
        IF s = MaxElement(cnt) THEN tsize ELSE IF cnt[s] > 0 THEN 1 ELSE 0]

\* last resort: all weight on the most frequent symbol
LastResort(cnt, tsize) ==
    LET best == MaxElement(cnt)
    IN  [s \in DOMAIN cnt |-> IF s = best THEN tsize ELSE 0]

\* the normalized vector at the end of the constructor, and the path taken
Normalize(cnt, tsize) ==
    LET alloc == InitialAllocation(cnt, tsize)
        diff1 == tsize - Accumulate(alloc)
        first == IF diff1 = 0 THEN alloc
                 ELSE FirstAdjust(alloc, diff1, 1, SymbolOrder(cnt),
                                  IF diff1 > 0 THEN 1 ELSE -1)
        diff2 == tsize - Accumulate(first)
        second == RepeatAdjust(first, diff2, SymbolOrder(cnt))
    IN  IF diff2 = 0
        THEN [normalized |-> first,
              path |-> IF diff1 = 0 THEN "exact" ELSE "first_pass"]
        ELSE IF Accumulate(second) = tsize
        THEN [normalized |-> second, path |-> "repeat_pass"]
        ELSE [normalized |-> LastResort(cnt, tsize), path |-> "last_resort"]

\* the check of table_log at the head of both constructors
TableLogRejected(tlog) == tlog > kAcceptedTableLog

\* FSEParams::FSEParams: the value constructed, or the exception thrown
FSEParams(counts_in, table_log_in) ==
    IF TableLogRejected(table_log_in)
    THEN [ok |-> FALSE, error |-> "invalid_argument"]
    ELSE IF Size(counts_in) = 0
    THEN [ok |-> FALSE, error |-> "invalid_argument"]
    ELSE IF Accumulate(counts_in) = 0
    THEN [ok |-> FALSE, error |-> "invalid_argument"]
    ELSE LET tsize == 2 ^ table_log_in
             nz == Normalize(counts_in, tsize)
         IN  [ok |-> TRUE,
              counts |-> counts_in,
              table_log |-> table_log_in,
              table_size |-> tsize,
              normalized |-> nz.normalized,
              data_block_size_bits |-> kDataBlockSizeBits,
              initial_state |-> tsize,
              path |-> nz.path]


(***************************************************************************)
(* FSETables: spread, decode table, encode table and symbol transforms.    *)
(***************************************************************************)
\* std::numeric_limits<uint32_t>::max(), the mark of a spread slot not yet filled
EmptySlot == -1

\* the spread stride
SpreadStep(tsize) == (tsize \div 2) + (tsize \div 8) + 3

\* syms: every symbol s repeated norm[s] times, in ascending s
RECURSIVE SymList(_, _)
SymList(norm, n) ==
    IF n = 0 THEN <<>>
    ELSE SymList(norm, n - 1) \o [i \in 1..norm[n - 1] |-> n - 1]

\* the linear scan taken when the stride walk comes back to its start
LinearScan(st, s, tsize, step) ==
    IF \E i \in 0..(tsize - 1) : st.spread[i] = EmptySlot
    THEN LET i == CHOOSE j \in 0..(tsize - 1) :
                      /\ st.spread[j] = EmptySlot
                      /\ \A k \in 0..(j - 1) : st.spread[k] # EmptySlot
         IN  [st EXCEPT !.spread[i] = s,
                        !.pos = (i + step) % tsize,
                        !.writes = Append(@, <<i, s>>),
                        !.scans = @ + 1]
    ELSE [st EXCEPT !.failed = TRUE]

\* the while loop that looks for a free slot for symbol s
RECURSIVE SpreadWalk(_, _, _, _, _, _)
SpreadWalk(st, start_pos, attempts, s, tsize, step) ==
    IF st.spread[st.pos] = EmptySlot THEN st
    ELSE LET pos2 == (st.pos + step) % tsize
             moved == [st EXCEPT !.pos = pos2]
         IN  IF attempts + 1 >= tsize \/ pos2 = start_pos
             THEN LinearScan(moved, s, tsize, step)
             ELSE SpreadWalk(moved, start_pos, attempts + 1, s, tsize, step)

\* PlaceSymbol without the test that the slot at pos is still free
PlaceSymbolUnchecked(st, s, tsize, step) ==
    LET w == SpreadWalk(st, st.pos, 0, s, tsize, step)
    IN  IF w.failed THEN w
        ELSE [w EXCEPT !.spread[w.pos] = s,
                       !.pos = (w.pos + step) % tsize,
                       !.writes = Append(@, <<w.pos, s>>)]

\* one iteration of the loop over syms
PlaceSymbol(st, s, tsize, step) ==
    LET w == SpreadWalk(st, st.pos, 0, s, tsize, step)
    IN  IF w.failed THEN w
        ELSE IF w.spread[w.pos] = EmptySlot
        THEN [w EXCEPT !.spread[w.pos] = s,
                       !.pos = (w.pos + step) % tsize,
                       !.writes = Append(@, <<w.pos, s>>)]
        ELSE w

RECURSIVE PlaceAll(_, _, _, _, _)
PlaceAll(st, syms, k, tsize, step) ==
    IF k > Len(syms) \/ st.failed THEN st
    ELSE PlaceAll(PlaceSymbol(st, syms[k], tsize, step), syms, k + 1, tsize, step)

\* the spread table, every write made to it (slot, symbol) in order, the number
\* of linear scans taken and whether "Spread table placement failed" was thrown
BuildSpread(norm, tsize) ==
    PlaceAll([spread |-> [u \in 0..(tsize - 1) |-> EmptySlot],
              pos |-> 0, writes |-> <<>>, scans |-> 0, failed |-> FALSE],
             SymList(norm, Size(norm)), 1, tsize, SpreadStep(tsize))

\* DecodeEntryFor reading one bit more than the entry's range holds
DecodeEntryExtraBit(s, next_state_enc, tlog, tsize) ==
    LET nb_bits == tlog - floor_log2(Max(1, next_state_enc))
    IN  [new_state_base |-> (next_state_enc * (2 ^ nb_bits) - tsize) % 65536,
         nb_bits |-> (nb_bits + 1) % 256,
         symbol |-> s % 256]

\* DecodeEntryFor with new_state_base left at next << nb_bits
DecodeEntryNoRebase(s, next_state_enc, tlog, tsize) ==
    LET nb_bits == tlog - floor_log2(Max(1, next_state_enc))
    IN  [new_state_base |-> (next_state_enc * (2 ^ nb_bits)) % 65536,
         nb_bits |-> nb_bits % 256,
         symbol |-> s % 256]

\* one decode entry, from the value symbol_next[s] had when slot u was visited
DecodeEntryFor(s, next_state_enc, tlog, tsize) ==
    LET safe_state == Max(1, next_state_enc)
        nb_bits == tlog - floor_log2(safe_state)
        new_state_base == next_state_enc * (2 ^ nb_bits) - tsize
    IN  [new_state_base |-> new_state_base % 65536,
         nb_bits |-> nb_bits % 256,
         symbol |-> s % 256]

\* BuildDTable with symbol_next[s] left where it started
RECURSIVE BuildDTableFixedNext(_, _, _, _, _, _)
BuildDTableFixedNext(dt, symbol_next, spread, u, tlog, tsize) ==
    IF u = tsize THEN dt
    ELSE LET s == spread[u]
         IN  BuildDTableFixedNext(
                 dt @@ (u :> DecodeEntryFor(s, symbol_next[s], tlog, tsize)),
                 symbol_next, spread, u + 1, tlog, tsize)

RECURSIVE BuildDTable(_, _, _, _, _, _)
BuildDTable(dt, symbol_next, spread, u, tlog, tsize) ==
    IF u = tsize THEN dt
    ELSE LET s == spread[u]
         IN  BuildDTable(dt @@ (u :> DecodeEntryFor(s, symbol_next[s], tlog, tsize)),
                         [symbol_next EXCEPT ![s] = @ + 1],
                         spread, u + 1, tlog, tsize)

\* cumul[s]: sum of norm over the symbols below s
Cumul(norm) == [s \in DOMAIN norm |-> SumUpTo(norm, s)]

\* EncodeEntryFor storing the slot without the table_size offset
EncodeEntrySlotOnly(u, tsize) == u % 65536

\* the value stored in the 16-bit encode table for slot u
EncodeEntryFor(u, tsize) == (tsize + u) % 65536

RECURSIVE BuildTableU16(_, _, _, _, _)
BuildTableU16(tu, local_cumul, spread, u, tsize) ==
    IF u = tsize THEN tu
    ELSE LET s == spread[u]
             idx == local_cumul[s]
         IN  BuildTableU16((idx :> EncodeEntryFor(u, tsize)) @@ tu,
                           [local_cumul EXCEPT ![s] = @ + 1],
                           spread, u + 1, tsize)

\* SymTransformFor with max_bits_out taken as table_log for every frequency
SymTransformWholeLog(freq, total, tlog) ==
    IF freq = 0
    THEN [delta_nb_bits |-> (tlog + 1) * 65536 - 2 ^ tlog, delta_find_state |-> 0]
    ELSE [delta_nb_bits |-> tlog * 65536 - freq * (2 ^ tlog),
          delta_find_state |-> total - freq]

\* the symbol transform of s.  delta_nb_bits is a uint32_t: the number kept here
\* is congruent to it modulo 2^32 (and equal to it whenever it is not negative).
SymTransformFor(freq, total, tlog) ==
    IF freq = 0
    THEN [delta_nb_bits |-> (tlog + 1) * 65536 - 2 ^ tlog, delta_find_state |-> 0]
    ELSE LET max_bits_out == IF freq > 1 THEN tlog - floor_log2(freq - 1) ELSE tlog
             min_state_plus == freq * (2 ^ max_bits_out)
         IN  [delta_nb_bits |-> max_bits_out * 65536 - min_state_plus,
              delta_find_state |-> total - freq]

\* total is advanced only by the symbols of non-zero frequency, which makes it
\* the cumulative frequency below s
BuildSymTT(norm, tlog) ==
    [s \in DOMAIN norm |-> SymTransformFor(norm[s], SumUpTo(norm, s), tlog)]

\* FSETables::FSETables: the tables, or the exception thrown
FSETables(p) ==
    IF TableLogRejected(p.table_log)
    THEN [ok |-> FALSE, error |-> "invalid_argument"]
    ELSE LET sp == BuildSpread(p.normalized, p.table_size)
         IN  IF sp.failed
             THEN [ok |-> FALSE, error |-> "runtime_error", writes |-> sp.writes,
                   scans |-> sp.scans]
             ELSE [ok |-> TRUE,
                   table_log |-> p.table_log,
                   table_size |-> p.table_size,
                   data_block_size_bits |-> p.data_block_size_bits,
                   alphabet_size |-> Size(p.counts),
                   normalized |-> p.normalized,
                   spread |-> sp.spread,
                   writes |-> sp.writes,
                   scans |-> sp.scans,
                   dtable |-> BuildDTable(<<>>, p.normalized, sp.spread, 0,
                                          p.table_log, p.table_size),
                   tableU16 |-> BuildTableU16(<<>>, Cumul(p.normalized), sp.spread,
                                              0, p.table_size),
                   symTT |-> BuildSymTT(p.normalized, p.table_log)]


(***************************************************************************)
(* Bit I/O.  A uint32_t value is a number; bit i of it is BitOf(value, i). *)
(* A uint64_t accumulator is a function from 0..63 to {0, 1}.              *)
(***************************************************************************)
BitOf(value, i) == IF i >= 31 THEN 0 ELSE (value \div (2 ^ i)) % 2

\* byte | (1 << k)
ByteOrBit(byte, k) == IF (byte \div (2 ^ k)) % 2 = 1 THEN byte ELSE byte + 2 ^ k

Reg64Zero == [i \in 0..63 |-> 0]

\* reg | (static_cast<uint64_t>(value) << sh), for sh < 64
Reg64OrShl(reg, value, sh) ==
    [i \in 0..63 |-> IF reg[i] = 1 \/ (i >= sh /\ BitOf(value, i - sh) = 1) THEN 1 ELSE 0]

\* reg | ((static_cast<uint64_t>(value) & mask) << sh), mask being the low `keep` bits
Reg64OrMaskedShl(reg, value, keep, sh) ==
    [i \in 0..63 |->
        IF reg[i] = 1 \/ (i >= sh /\ i - sh < keep /\ BitOf(value, i - sh) = 1)
        THEN 1 ELSE 0]

\* reg >> k
Reg64Shr(reg, k) == [i \in 0..63 |-> IF i + k <= 63 THEN reg[i + k] ELSE 0]

\* static_cast<uint64_t>(value) >> k
Reg64OfShr(value, k) == [i \in 0..63 |-> BitOf(value, i + k)]

\* byte number b (0 the lowest) of the accumulator
Reg64Byte(reg, b) ==
    reg[8 * b] + 2 * reg[8 * b + 1] + 4 * reg[8 * b + 2] + 8 * reg[8 * b + 3]
    + 16 * reg[8 * b + 4] + 32 * reg[8 * b + 5] + 64 * reg[8 * b + 6]
    + 128 * reg[8 * b + 7]

\* the first n bytes of the accumulator as memcpy stores them (little-endian host)
Reg64Bytes(reg, n) == [b \in 1..n |-> Reg64Byte(reg, b - 1)]

\* ---- BitWriterMSB ----
MSBReset == [bytes |-> <<>>, bit_len |-> 0]

\* append_bits handing the bits of value to append_bit from bit 0 upwards
MSBAppendBitsLowFirst(w, value, nbits) ==
    IF nbits = 0 THEN w
    ELSE LET new_len == w.bit_len + nbits
             nbytes == Max(Len(w.bytes), (new_len + 7) \div 8)
             OldBit(t) == IF t \div 8 < Len(w.bytes)
                          THEN (w.bytes[(t \div 8) + 1] \div (2 ^ (7 - (t % 8)))) % 2
                          ELSE 0
             NewBit(t) == IF t >= w.bit_len /\ t < new_len
                          THEN BitOf(value, t - w.bit_len)
                          ELSE 0
             Bit(t) == IF OldBit(t) = 1 \/ NewBit(t) = 1 THEN 1 ELSE 0
         IN  [bytes |-> [j \in 1..nbytes |->
                            128 * Bit(8 * (j - 1)) + 64 * Bit(8 * (j - 1) + 1)
                            + 32 * Bit(8 * (j - 1) + 2) + 16 * Bit(8 * (j - 1) + 3)
                            + 8 * Bit(8 * (j - 1) + 4) + 4 * Bit(8 * (j - 1) + 5)
                            + 2 * Bit(8 * (j - 1) + 6) + Bit(8 * (j - 1) + 7)],
              bit_len |-> new_len]

\* append_bits: iteration i (from nbits - 1 down to 0) hands (value >> i) & 1
\* to append_bit, which grows the buffer by a zero byte when bit_len / 8 reaches
\* its size and ors the bit in at position 7 - bit_len % 8 of byte bit_len / 8.
\* Stream index t therefore receives bit bit_len + nbits - 1 - t of value.
MSBAppendBits(w, value, nbits) ==
    IF nbits = 0 THEN w
    ELSE LET new_len == w.bit_len + nbits
             nbytes == Max(Len(w.bytes), (new_len + 7) \div 8)
             OldBit(t) == IF t \div 8 < Len(w.bytes)
                          THEN (w.bytes[(t \div 8) + 1] \div (2 ^ (7 - (t % 8)))) % 2
                          ELSE 0
             NewBit(t) == IF t >= w.bit_len /\ t < new_len
                          THEN BitOf(value, new_len - 1 - t)
                          ELSE 0
             Bit(t) == IF OldBit(t) = 1 \/ NewBit(t) = 1 THEN 1 ELSE 0
         IN  [bytes |-> [j \in 1..nbytes |->
                            128 * Bit(8 * (j - 1)) + 64 * Bit(8 * (j - 1) + 1)
                            + 32 * Bit(8 * (j - 1) + 2) + 16 * Bit(8 * (j - 1) + 3)
                            + 8 * Bit(8 * (j - 1) + 4) + 4 * Bit(8 * (j - 1) + 5)
                            + 2 * Bit(8 * (j - 1) + 6) + Bit(8 * (j - 1) + 7)],
              bit_len |-> new_len]

\* finish_into() followed by move_buffer()
MSBFinish(w) == [bytes |-> w.bytes, bit_count |-> w.bit_len]

\* ---- BitWriterLSBGeneric<8> (BitWriterLSB8) ----
LSBReset == [bytes |-> <<>>, bit_buffer |-> Reg64Zero, bit_count |-> 0]

\* the flush loop: whole bytes leave the accumulator
RECURSIVE LSBFlush(_)
LSBFlush(w) ==
    IF w.bit_count < 8 THEN w
    ELSE LSBFlush([bytes |-> Append(w.bytes, Reg64Byte(w.bit_buffer, 0)),
                   bit_buffer |-> Reg64Shr(w.bit_buffer, 8),
                   bit_count |-> w.bit_count - 8])

LSB8AppendBits(w, value, nbits) ==
    IF nbits = 0 THEN w
    ELSE LSBFlush([w EXCEPT !.bit_buffer = Reg64OrShl(@, value, w.bit_count),
                            !.bit_count = @ + nbits])

RECURSIVE LSB8Drain(_)
LSB8Drain(w) ==
    IF w.bit_count = 0 THEN w
    ELSE LSB8Drain([bytes |-> Append(w.bytes, Reg64Byte(w.bit_buffer, 0)),
                    bit_buffer |-> Reg64Shr(w.bit_buffer, 8),
                    bit_count |-> IF w.bit_count >= 8 THEN w.bit_count - 8 ELSE 0])

LSB8Finish(w) ==
    [bytes |-> LSB8Drain(w).bytes, bit_count |-> Len(w.bytes) * 8 + w.bit_count]

\* ---- BitWriterLSBWide (64-bit accumulator, flushed a word at a time) ----
WideAppendBits(w, value, nbits) ==
    IF nbits = 0 THEN w
    ELSE IF w.bit_count + nbits < 64
    THEN [w EXCEPT !.bit_buffer = Reg64OrShl(@, value, w.bit_count),
                   !.bit_count = @ + nbits]
    ELSE LET space == 64 - w.bit_count
             word == Reg64OrMaskedShl(w.bit_buffer, value, space, w.bit_count)
         IN  [bytes |-> w.bytes \o Reg64Bytes(word, 8),
              bit_buffer |-> Reg64OfShr(value, space),
              bit_count |-> nbits - space]

\* WideFinish copying bit_count / 8 tail bytes, the last partial byte left out
WideFinishWholeBytes(w) ==
    [bytes |-> IF w.bit_count > 0
               THEN w.bytes \o Reg64Bytes(w.bit_buffer, w.bit_count \div 8)
               ELSE w.bytes,
     bit_count |-> Len(w.bytes) * 8 + w.bit_count]

WideFinish(w) ==
    [bytes |-> IF w.bit_count > 0
               THEN w.bytes \o Reg64Bytes(w.bit_buffer, (w.bit_count + 7) \div 8)
               ELSE w.bytes,
     bit_count |-> Len(w.bytes) * 8 + w.bit_count]

\* ---- BitWriterLSB of frame.cpp ----
FrameLSBAppendBits(w, value, nbits) ==
    IF nbits = 0 THEN w
    ELSE LSBFlush([w EXCEPT !.bit_buffer = Reg64OrShl(@, value, w.bit_count),
                            !.bit_count = @ + nbits])

FrameLSBFinish(w) ==
    [bytes |-> IF w.bit_count > 0
               THEN Append(w.bytes, Reg64Byte(w.bit_buffer, 0))
               ELSE w.bytes,
     bit_count |-> Len(w.bytes) * 8 + w.bit_count]

\* ---- the writer a block encoder is instantiated with ----
WriterKinds == {"msb", "lsb8", "lsbwide", "lsbframe"}

WriterReset(kind) == IF kind = "msb" THEN MSBReset ELSE LSBReset

WriterAppend(kind, w, value, nbits) ==
    CASE kind = "msb" -> MSBAppendBits(w, value, nbits)
      [] kind = "lsb8" -> LSB8AppendBits(w, value, nbits)
      [] kind = "lsbwide" -> WideAppendBits(w, value, nbits)
      [] kind = "lsbframe" -> FrameLSBAppendBits(w, value, nbits)

WriterFinish(kind, w) ==
    CASE kind = "msb" -> MSBFinish(w)
      [] kind = "lsb8" -> LSB8Finish(w)
      [] kind = "lsbwide" -> WideFinish(w)
      [] kind = "lsbframe" -> FrameLSBFinish(w)

\* ---- readers ----
\* data_[k], k counted from 0; `fill` is what a read behind the buffer yields
ByteAt(data, k, fill) == IF k < Len(data) THEN data[k + 1] ELSE fill

\* the number whose bit i is bit(i), for the bits lo..hi (hi below 31 unless the
\* upper bits are 0)
RECURSIVE ValueOfBits(_, _, _)
ValueOfBits(bit, lo, hi) ==
    IF lo > hi THEN 0
    ELSE IF lo = hi THEN (IF bit[lo] = 0 THEN 0 ELSE 2 ^ lo)
    ELSE LET mid == (lo + hi) \div 2
         IN  ValueOfBits(bit, lo, mid) + ValueOfBits(bit, mid + 1, hi)

\* BitReaderMSB::read_bits: the value and the new position, or the exception
MSBReadBits(data, total_bits, bit_pos, nbits) ==
    IF nbits = 0 THEN [ok |-> TRUE, value |-> 0, pos |-> bit_pos]
    ELSE IF bit_pos + nbits > total_bits
    THEN [ok |-> FALSE, error |-> "out_of_bits", pos |-> bit_pos]
    ELSE LET bit(i) == LET bit_index == bit_pos + i
                       IN  (ByteAt(data, bit_index \div 8, 0)
                              \div (2 ^ (7 - (bit_index % 8)))) % 2
         IN  [ok |-> TRUE,
              value |-> ValueOfBits([i \in 0..(nbits - 1) |-> bit(nbits - 1 - i)], 0,
                                   nbits - 1),
              pos |-> bit_pos + nbits]

\* bit j of the 64-bit little-endian word made of the bytes byte_idx ..
\* byte_idx + 7, of which only those below `limit` are loaded from data
WordBit(data, byte_idx, j, limit, fill) ==
    LET k == byte_idx + (j \div 8)
        byte == IF k < limit THEN ByteAt(data, k, fill) ELSE 0
    IN  (byte \div (2 ^ (j % 8))) % 2

\* read_bits of bitio.hpp without the shift of the loaded word by bit_off
LSBReadBitsUnshifted(data, total_bits, bit_pos, nbits, fill) ==
    IF nbits = 0 THEN [ok |-> TRUE, value |-> 0, pos |-> bit_pos]
    ELSE LET byte_idx == bit_pos \div 8
             val(i) == WordBit(data, byte_idx, i, byte_idx + 8, fill)
         IN  [ok |-> TRUE,
              value |-> ValueOfBits([i \in 0..(nbits - 1) |-> val(i)], 0, nbits - 1),
              pos |-> bit_pos + nbits]

\* BitReaderLSB::read_bits of bitio.hpp: loads 8 bytes at data_ + byte_idx
\* whatever the length of the buffer, and checks no bound
LSBReadBits(data, total_bits, bit_pos, nbits, fill) ==
    IF nbits = 0 THEN [ok |-> TRUE, value |-> 0, pos |-> bit_pos]
    ELSE LET byte_idx == bit_pos \div 8
             bit_off == bit_pos % 8
             val(i) == IF i + bit_off <= 63
                       THEN WordBit(data, byte_idx, i + bit_off, byte_idx + 8, fill)
                       ELSE 0
         IN  [ok |-> TRUE,
              value |-> ValueOfBits([i \in 0..(nbits - 1) |-> val(i)], 0, nbits - 1),
              pos |-> bit_pos + nbits]

\* BitReaderLSB::read_bits of frame.cpp: loads the bytes below
\* (total_bits + 7) / 8 only, and checks no bound
FrameLSBReadBits(data, total_bits, bit_pos, nbits) ==
    IF nbits = 0 THEN [ok |-> TRUE, value |-> 0, pos |-> bit_pos]
    ELSE LET byte_idx == bit_pos \div 8
             bit_off == bit_pos % 8
             val(i) == IF i + bit_off <= 63
                       THEN WordBit(data, byte_idx, i + bit_off,
                                    (total_bits + 7) \div 8, 0)
                       ELSE 0
         IN  [ok |-> TRUE,
              value |-> ValueOfBits([i \in 0..(nbits - 1) |-> val(i)], 0, nbits - 1),
              pos |-> bit_pos + nbits]

ReaderKinds == {"msb", "lsb", "lsbframe"}

ReaderRead(kind, data, total_bits, bit_pos, nbits, fill) ==
    CASE kind = "msb" -> MSBReadBits(data, total_bits, bit_pos, nbits)
      [] kind = "lsb" -> LSBReadBits(data, total_bits, bit_pos, nbits, fill)
      [] kind = "lsbframe" -> FrameLSBReadBits(data, total_bits, bit_pos, nbits)


(***************************************************************************)
(* Block codec: encode_block_impl_into and decode_block_impl of fse.cpp,   *)
(* encode_block_lsb and decode_block_lsb of frame.cpp.                     *)
(***************************************************************************)
\* (state + delta_nb_bits) >> 16 in uint32_t arithmetic; delta is the number
\* congruent to delta_nb_bits that SymTransformFor keeps
NbOut(state, delta) ==
    LET sum == state + delta
    IN  IF sum >= 0 THEN sum \div 65536 ELSE 65536 + (sum \div 65536)

\* one iteration of the encoder loop, for symbol s
EncodeStep(st, s, tb) ==
    LET tr == tb.symTT[s]
        nb_out == NbOut(st.state, tr.delta_nb_bits)
        out_bits_value == st.state % (2 ^ nb_out)
        subrange_id == st.state \div (2 ^ nb_out)
        idx == subrange_id + tr.delta_find_state
    IN  [state |-> IF idx \in DOMAIN tb.tableU16 THEN tb.tableU16[idx] ELSE 0,
         out_of_table |-> st.out_of_table \/ idx \notin DOMAIN tb.tableU16,
         chunk_vals |-> Append(st.chunk_vals, out_bits_value),
         chunk_bits |-> Append(st.chunk_bits, nb_out),
         trace |-> Append(st.trace, [symbol |-> s, from |-> st.state, idx |-> idx,
                                     nb_out |-> nb_out, bits |-> out_bits_value])]

\* the loop over the symbols hi, hi - 1, ..., lo, last symbol first.  The upper
\* half of the range is gone through, then the lower half from the state that
\* left: the steps are those of the loop, in its order, and the evaluation
\* nests no deeper than the logarithm of the block's length
RECURSIVE EncodeLoop(_, _, _, _, _)
EncodeLoop(st, syms, hi, lo, tb) ==
    IF hi < lo \/ Len(st.trace) = Len(syms) THEN st
    ELSE IF hi = lo THEN EncodeStep(st, syms[hi], tb)
    ELSE LET mid == (hi + lo) \div 2
         IN  EncodeLoop(EncodeLoop(st, syms, hi, mid + 1, tb), syms, mid, lo, tb)

\* FlushChunks writing the chunks in the order they were recorded
RECURSIVE FlushChunksForward(_, _, _, _, _)
FlushChunksForward(kind, w, vals, bits, k) ==
    IF k = 0 THEN w
    ELSE LET w2 == FlushChunksForward(kind, w, vals, bits, k - 1)
         IN  IF bits[k] # 0 THEN WriterAppend(kind, w2, vals[k], bits[k]) ELSE w2

\* the chunks are written last recorded first; a chunk of no bits is skipped
RECURSIVE FlushChunks(_, _, _, _, _)
FlushChunks(kind, w, vals, bits, k) ==
    IF k = 0 \/ \A i \in 1..k : bits[i] = 0 THEN w
    ELSE FlushChunks(kind,
                     IF bits[k] # 0 THEN WriterAppend(kind, w, vals[k], bits[k]) ELSE w,
                     vals, bits, k - 1)

\* the EncodedBlock, with what the encoder went through
EncodeBlockWith(kind, syms, tb) ==
    LET w0 == WriterAppend(kind, WriterReset(kind), Len(syms), tb.data_block_size_bits)
    IN  IF Len(syms) = 0
        THEN LET fin == WriterFinish(kind, w0)
             IN  [bytes |-> fin.bytes, bit_count |-> fin.bit_count, trace |-> <<>>,
                  final_state |-> tb.table_size, out_of_table |-> FALSE]
        ELSE LET lp == EncodeLoop([state |-> tb.table_size, out_of_table |-> FALSE,
                                   chunk_vals |-> <<>>, chunk_bits |-> <<>>,
                                   trace |-> <<>>],
                                  syms, Len(syms), 1, tb)
                 w1 == WriterAppend(kind, w0, lp.state - tb.table_size, tb.table_log)
                 w2 == FlushChunks(kind, w1, lp.chunk_vals, lp.chunk_bits,
                                   Len(lp.chunk_vals))
                 fin == WriterFinish(kind, w2)
             IN  [bytes |-> fin.bytes, bit_count |-> fin.bit_count, trace |-> lp.trace,
                  final_state |-> lp.state, out_of_table |-> lp.out_of_table]

\* encode_block_impl_into<Writer>
encode_block_impl_into(kind, syms, tb) == EncodeBlockWith(kind, syms, tb)

\* encode_block_lsb of frame.cpp
\* variant: the LSB block encoder writes its bits as the MSB one does
encode_block_lsb_written_msb(syms, tb) == EncodeBlockWith("msb", syms, tb)

encode_block_lsb(syms, tb) == EncodeBlockWith("lsbframe", syms, tb)

\* one iteration of the decoder loop
DecodeStep(st, kind, data, bit_len, tb, fill) ==
    IF st.state \notin DOMAIN tb.dtable
    THEN [st EXCEPT !.ok = FALSE, !.error = "out_of_table"]
    ELSE LET entry == tb.dtable[st.state]
             rd == IF entry.nb_bits > 0
                   THEN ReaderRead(kind, data, bit_len, st.pos, entry.nb_bits, fill)
                   ELSE [ok |-> TRUE, value |-> 0, pos |-> st.pos]
         IN  IF ~rd.ok
             THEN [st EXCEPT !.ok = FALSE, !.error = rd.error]
             ELSE [st EXCEPT !.state = entry.new_state_base + rd.value,
                             !.pos = rd.pos,
                             !.symbols = Append(@, entry.symbol),
                             !.nb_bits = Append(@, entry.nb_bits)]

\* `left` iterations of the decoder loop, or those up to the exception: the
\* first half of them, then the others from the state that left
RECURSIVE DecodeLoop(_, _, _, _, _, _, _)
DecodeLoop(st, left, kind, data, bit_len, tb, fill) ==
    IF left = 0 \/ ~st.ok THEN st
    ELSE IF left = 1 THEN DecodeStep(st, kind, data, bit_len, tb, fill)
    ELSE DecodeLoop(DecodeLoop(st, left \div 2, kind, data, bit_len, tb, fill),
                    left - (left \div 2), kind, data, bit_len, tb, fill)

\* the DecodeResult, with the decoder's last state and the exception if one was
\* thrown; bit_offset is 0 at every call site
DecodeBlockWith(kind, data, bit_len, tb, fill) ==
    LET r0 == ReaderRead(kind, data, bit_len, 0, tb.data_block_size_bits, fill)
    IN  IF ~r0.ok
        THEN [ok |-> FALSE, error |-> r0.error, symbols |-> <<>>, block_size |-> 0,
              bits_consumed |-> 0, state |-> 0, nb_bits |-> <<>>]
        ELSE IF r0.value = 0
        THEN [ok |-> TRUE, error |-> "", symbols |-> <<>>, block_size |-> 0,
              bits_consumed |-> tb.data_block_size_bits, state |-> 0,
              nb_bits |-> <<>>]
        ELSE LET r1 == ReaderRead(kind, data, bit_len, r0.pos, tb.table_log, fill)
             IN  IF ~r1.ok
                 THEN [ok |-> FALSE, error |-> r1.error, symbols |-> <<>>,
                       block_size |-> r0.value, bits_consumed |-> r0.pos,
                       state |-> 0, nb_bits |-> <<>>]
                 ELSE LET lp == DecodeLoop([ok |-> TRUE, error |-> "",
                                            state |-> r1.value, pos |-> r1.pos,
                                            symbols |-> <<>>, nb_bits |-> <<>>],
                                           r0.value, kind, data, bit_len, tb, fill)
                      IN  [ok |-> lp.ok, error |-> lp.error, symbols |-> lp.symbols,
                           block_size |-> r0.value, bits_consumed |-> lp.pos,
                           state |-> lp.state, nb_bits |-> lp.nb_bits]

\* a number of iterations after which the decoder loop over a payload of
\* bit_len bits in avail bytes, if it has not thrown, goes round a cycle of
\* states: an iteration with nb_bits > 0 moves the reader on, no more iterations
\* with nb_bits = 0 than there are such entries go without a state coming back,
\* and behind the last bit the next state depends on the state alone
IterationCap(avail, bit_len, tb) ==
    (Min(8 * avail, 8 * ((bit_len + 7) \div 8)) + 1)
        * (Cardinality({u \in DOMAIN tb.dtable : tb.dtable[u].nb_bits = 0}) + 1)
        + tb.table_size

\* the block_size read from the payload is not the record's blk_sz and is above
\* IterationCap: what the loop does is settled by its first iterations
LongBlock(data, ppos, blk_sz, bit_count, o, tb) ==
    LET first == ReaderRead(IF o.use_lsb THEN "lsbframe" ELSE "msb",
                            SubSeq(data, ppos + 1, Len(data)), bit_count, 0,
                            tb.data_block_size_bits, 0)
    IN  first.ok /\ first.value > IterationCap(Len(data) - ppos, bit_count, tb) /\ first.value # blk_sz

\* the DecodeResult for a block_size above cap, a number of iterations after
\* which the loop, if it has not thrown, reads no bit of the payload any more:
\* it has either used the payload up or come to entries of nb_bits 0, and then
\* goes round a cycle of states.  The symbols and nb_bits kept are those of the
\* first cap iterations; state is the one after all block_size iterations
DecodeLongBlock(kind, data, bit_len, tb, cap) ==
    LET r0 == ReaderRead(kind, data, bit_len, 0, tb.data_block_size_bits, 0)
        r1 == ReaderRead(kind, data, bit_len, r0.pos, tb.table_log, 0)
        lp == DecodeLoop([ok |-> TRUE, error |-> "", state |-> r1.value,
                          pos |-> r1.pos, symbols |-> <<>>, nb_bits |-> <<>>],
                         cap, kind, data, bit_len, tb, 0)
        After(k) == DecodeLoop([lp EXCEPT !.symbols = <<>>, !.nb_bits = <<>>], k,
                               kind, data, bit_len, tb, 0).state
        period == CHOOSE l \in 1..tb.table_size :
                      /\ After(l) = lp.state
                      /\ \A m \in 1..(l - 1) : After(m) # lp.state
    IN  IF ~r1.ok
        THEN [ok |-> FALSE, error |-> r1.error, symbols |-> <<>>,
              block_size |-> r0.value, bits_consumed |-> r0.pos,
              state |-> 0, nb_bits |-> <<>>]
        ELSE IF ~lp.ok
        THEN [ok |-> FALSE, error |-> lp.error, symbols |-> lp.symbols,
              block_size |-> r0.value, bits_consumed |-> lp.pos,
              state |-> lp.state, nb_bits |-> lp.nb_bits]
        ELSE [ok |-> TRUE, error |-> "", symbols |-> lp.symbols,
              block_size |-> r0.value, bits_consumed |-> lp.pos,
              state |-> After((r0.value - cap) % period), nb_bits |-> lp.nb_bits]

\* decode_block_impl<Reader>
decode_block_impl(kind, data, bit_len, tb, fill) ==
    DecodeBlockWith(kind, data, bit_len, tb, fill)

\* decode_block_lsb of frame.cpp
decode_block_lsb(data, bit_len, tb) == DecodeBlockWith("lsbframe", data, bit_len, tb, 0)

\* the reader an encoder's output is handed to: make_encoder / make_decoder pair
\* FSEEncoderMSB with FSEDecoderMSB, FSEEncoderLSB and FSEEncoderLSB64 with
\* FSEDecoderLSB
ReaderOf(kind) ==
    CASE kind = "msb" -> "msb"
      [] kind = "lsb8" -> "lsb"
      [] kind = "lsbwide" -> "lsb"
      [] kind = "lsbframe" -> "lsbframe"


(***************************************************************************)
(* Specification SpecParams: FSEParams constructed from any histogram over *)
(* 0..NumSymbols symbols and any table_log in 0..MaxTableLogIn.            *)
(***************************************************************************)
Histograms(n) == [0..(n - 1) -> 0..MaxCount]

IdleBlock ==
    /\ symbols = <<>>
    /\ ordering = "msb"
    /\ pad = 0
    /\ encoded = NoValue
    /\ decoded = NoValue

IdleWriters ==
    /\ writers = NoValue
    /\ appended = <<>>
    /\ finished = NoValue
    /\ readers = NoValue

IdleFrame ==
    /\ input = <<>>
    /\ opts = NoValue
    /\ enc_pos = 0
    /\ frame = <<>>
    /\ written = <<>>
    /\ dec_pos = 0
    /\ output = <<>>
    /\ visited = <<>>
    /\ buffer = <<>>
    /\ dec_opts = NoValue
    /\ damage = NoDamage

InitParams ==
    /\ pc = "construct"
    /\ \/ \E n \in 0..NumSymbols : counts \in Histograms(n)
       \/ counts \in [0..(WideSymbols - 1) -> 1..MaxCount]
    /\ table_log \in 0..MaxTableLogIn
    /\ params = NoValue
    /\ tables = NoValue
    /\ IdleBlock /\ IdleWriters /\ IdleFrame

\* FSEParams params(counts, table_log)
ConstructParams ==
    /\ pc = "construct"
    /\ params' = FSEParams(counts, table_log)
    /\ pc' = "constructed"
    /\ UNCHANGED <<counts, table_log, tables, blockVars, writerVars, frameVars>>

NextParams == ConstructParams

SpecParams == InitParams /\ [][NextParams]_vars


(***************************************************************************)
(* Specification SpecTables: FSETables built from any normalized vector    *)
(* over NumSymbols symbols that sums to table_size, table_log in           *)
(* 1..MaxTableLog.                                                         *)
(***************************************************************************)
\* the vectors over n symbols (n >= 1) that sum to tsize
NormalizedVectors(n, tsize) ==
    {[s \in 0..(n - 1) |-> IF s < n - 1 THEN f[s] ELSE tsize - SumUpTo(f, n - 1)] :
        f \in {g \in [0..(n - 2) -> 0..tsize] : SumUpTo(g, n - 1) <= tsize}}

\* a Parameters value holding the normalized vector norm
ParamsOf(norm, tlog) ==
    [ok |-> TRUE, counts |-> norm, table_log |-> tlog, table_size |-> 2 ^ tlog,
     normalized |-> norm, data_block_size_bits |-> kDataBlockSizeBits,
     initial_state |-> 2 ^ tlog, path |-> "given"]

InitTables ==
    /\ pc = "build"
    /\ table_log \in 1..MaxTableLog
    /\ \E norm \in NormalizedVectors(NumSymbols, 2 ^ table_log) :
          /\ counts = norm
          /\ params = ParamsOf(norm, table_log)
    /\ tables = NoValue
    /\ IdleBlock /\ IdleWriters /\ IdleFrame

\* FSETables tables(params)
BuildTables ==
    /\ pc = "build"
    /\ params.ok
    /\ tables' = FSETables(params)
    /\ pc' = "built"
    /\ UNCHANGED <<paramVars, blockVars, writerVars, frameVars>>

NextTables == BuildTables

SpecTables == InitTables /\ [][NextTables]_vars

(***************************************************************************)
(* Specification SpecEntry: what the FSETables constructor stores for one  *)
(* slot and one symbol, and the encoder's nb_out for one state, for any    *)
(* table_log in 0..MaxTableLogIn that the constructors accept.             *)
(***************************************************************************)
InitEntry ==
    /\ pc = "entries"
    /\ table_log \in 0..MaxTableLogIn
    /\ counts = <<>>
    /\ params = NoValue
    /\ tables = NoValue
    /\ IdleBlock /\ IdleWriters /\ IdleFrame

\* the constructor's stores for slot u (tableU16[idx], and dtable[u] when
\* symbol_next[s] is next_state_enc), symTT[s] for a symbol of frequency freq
\* with total states below it, and the encoder's nb_out in state x.  The slots,
\* frequencies and states tried are the ends of each range, the values next to
\* a power of two and the states next to a multiple of freq by a power of two.
StoreEntries ==
    /\ pc = "entries"
    /\ ~TableLogRejected(table_log)
    /\ LET tsize == 2 ^ table_log
           NearPowers == UNION {{2 ^ k - 1, 2 ^ k, 2 ^ k + 1} : k \in 0..table_log}
       IN  \E u \in {0, tsize - 1} :
           \E freq \in {f \in (1..5) \cup NearPowers : f >= 1 /\ f <= tsize} :
           \E next_state_enc \in {freq, freq + (freq \div 2), 2 * freq - 1} :
           \E total \in {0, tsize - freq} :
           \E x \in {y \in {tsize, tsize + 1, 2 * tsize - 2, 2 * tsize - 1}
                        \cup {freq * (2 ^ k) + d :
                                 k \in 0..(table_log + 1 - floor_log2(freq)),
                                 d \in {-1, 0, 1}} :
                        y >= tsize /\ y < 2 * tsize} :
           \E tr \in {SymTransformFor(freq, total, table_log)} :
               tables' = [table_log |-> table_log,
                          table_size |-> tsize,
                          slot |-> u,
                          stored_state |-> EncodeEntryFor(u, tsize),
                          next_state_enc |-> next_state_enc,
                          entry |-> DecodeEntryFor(0, next_state_enc, table_log, tsize),
                          freq |-> freq,
                          transform |-> tr,
                          state |-> x,
                          nb_out |-> NbOut(x, tr.delta_nb_bits)]
    /\ pc' = "stored"
    /\ UNCHANGED <<paramVars, blockVars, writerVars, frameVars>>

NextEntry == StoreEntries

SpecEntry == InitEntry /\ [][NextEntry]_vars

(***************************************************************************)
(* Specification SpecBlock: one block of 1..MaxLen symbols, its tables     *)
(* built from its own histogram, encoded and decoded by a matching pair.   *)
(***************************************************************************)
Symbols == 0..(NumSymbols - 1)

SymbolSeqs(lo, hi) == UNION {[1..n -> Symbols] : n \in lo..hi}

\* the histogram of a block over n symbols
HistogramOf(syms, n) ==
    [b \in 0..(n - 1) |-> Cardinality({i \in 1..Len(syms) : syms[i] = b})]

InitBlock ==
    /\ pc = "params"
    /\ symbols \in SymbolSeqs(1, MaxLen)
    /\ table_log \in 1..MaxTableLog
    /\ ordering \in {"msb", "lsb8", "lsbwide"}
    /\ pad \in {0, 255}
    /\ counts = HistogramOf(symbols, NumSymbols)
    /\ params = NoValue
    /\ tables = NoValue
    /\ encoded = NoValue
    /\ decoded = NoValue
    /\ IdleWriters /\ IdleFrame

\* FSEParams params(counts, table_log); FSETables tables(params)
BlockTables ==
    /\ pc = "params"
    /\ params' = FSEParams(counts, table_log)
    /\ tables' = IF params'.ok THEN FSETables(params') ELSE NoValue
    /\ pc' = "tables"
    /\ UNCHANGED <<counts, table_log, blockVars, writerVars, frameVars>>

\* encoder->encode_block(symbols)
EncodeBlock ==
    /\ pc = "tables"
    /\ params.ok /\ tables.ok
    /\ encoded' = encode_block_impl_into(ordering, symbols, tables)
    /\ pc' = "encoded"
    /\ UNCHANGED <<paramVars, tables, symbols, ordering, pad, decoded, writerVars,
                   frameVars>>

\* decoder->decode_block(encoded.bytes.data(), encoded.bit_count)
DecodeBlock ==
    /\ pc = "encoded"
    /\ decoded' = decode_block_impl(ReaderOf(ordering), encoded.bytes,
                                    encoded.bit_count, tables, pad)
    /\ pc' = "decoded"
    /\ UNCHANGED <<paramVars, tables, symbols, ordering, pad, encoded, writerVars,
                   frameVars>>

NextBlock == BlockTables \/ EncodeBlock \/ DecodeBlock

SpecBlock == InitBlock /\ [][NextBlock]_vars


(***************************************************************************)
(* Frame codec: encode_stream and decode_stream of frame.cpp.  A record is *)
(* block_size, bit_count, table_log (4 bytes each, little-endian), the     *)
(* histogram (4 bytes per symbol; NumSymbols symbols here, 256 in the      *)
(* code) and ceil(bit_count / 8) payload bytes.                            *)
(***************************************************************************)
\* memcpy of a uint32_t on a little-endian host
LE32(v) == <<v % 256, (v \div 256) % 256, (v \div 65536) % 256, (v \div 16777216) % 256>>

\* memcpy into a uint32_t from data + pos (numbers stay below 2^31)
ReadLE32(data, pos) ==
    data[pos + 1] + 256 * data[pos + 2] + 65536 * data[pos + 3]
    + 16777216 * data[pos + 4]

RECURSIVE CountsBytes(_, _)
\* memcpy of counts.data()
CountsBytes(cnt, n) ==
    IF n = 0 THEN <<>> ELSE CountsBytes(cnt, n - 1) \o LE32(cnt[n - 1])

\* the three header words
HeaderWordsBytes == 12

\* counts_bytes
HistogramBytes == 4 * NumSymbols

\* EffectiveBlockSize taking 0 for the smallest block size
EffectiveBlockSizeAtLeastOne(block_size, n) == IF block_size = 0 THEN 1 ELSE block_size

\* block_size == 0 stands for the whole input
EffectiveBlockSize(block_size, n) == IF block_size = 0 THEN n ELSE block_size

\* the loop of encode_stream run as a do-while: one pass even with no input
MoreInputOrFirstPass(in, pos) == pos < Len(in) \/ pos = 0

\* while (pos < input.size())
MoreInput(in, pos) == pos < Len(in)

\* the block encode_stream takes at pos
ChunkAt(in, pos, o) ==
    LET chunk == Min(EffectiveBlockSize(o.block_size, Len(in)), Len(in) - pos)
    IN  SubSeq(in, pos + 1, pos + chunk)

\* counts filled from input[i], the offset pos of the block left out
BlockCountsFromStart(in, pos, chunk) == HistogramOf(SubSeq(in, 1, chunk), NumSymbols)

\* counts[input[pos + i]]++ for i < chunk
BlockCounts(in, pos, chunk) ==
    HistogramOf(SubSeq(in, pos + 1, pos + chunk), NumSymbols)

\* the tables of a block: FSETables tables(params), when params was accepted
TablesFor(p) == IF p.ok THEN FSETables(p) ELSE NoValue

\* one iteration of encode_stream's loop, from pos, with the block's params p
\* and tables tb: the bytes appended to the frame and what went into them
EncodeRecord(in, pos, o, p, tb) ==
    LET syms == ChunkAt(in, pos, o)
        chunk == Len(syms)
        cnt == BlockCounts(in, pos, chunk)
    IN  IF ~p.ok \/ ~tb.ok
        THEN [ok |-> FALSE]
        ELSE LET enc == IF o.use_lsb THEN encode_block_lsb(syms, tb)
                        ELSE encode_block_impl_into("msb", syms, tb)
             IN  [ok |-> TRUE,
                  chunk |-> chunk,
                  bytes |-> LE32(chunk) \o LE32(enc.bit_count) \o LE32(p.table_log)
                            \o CountsBytes(cnt, NumSymbols) \o enc.bytes,
                  log |-> [block_size |-> chunk,
                           bit_count |-> enc.bit_count,
                           table_log |-> p.table_log,
                           counts |-> cnt,
                           normalized |-> p.normalized,
                           symbols |-> syms,
                           trace |-> enc.trace,
                           payload |-> enc.bytes,
                           offset |-> pos]]

\* the histogram of the record at pos, when the frame holds all of it
RecordCounts(data, pos) ==
    IF pos + HeaderWordsBytes + HistogramBytes > Len(data)
    THEN NoValue
    ELSE [b \in 0..(NumSymbols - 1) |-> ReadLE32(data, pos + HeaderWordsBytes + 4 * b)]

\* payload_bytes = (bit_count + 7) / 8 of the uint32_t whose four bytes lie at
\* pos: the sum is formed in 32 bits and wraps, so it is carried from the low 16
\* bits into the high 16 bits and the carry out of those is dropped
PayloadBytes(data, pos) ==
    LET low == data[pos + 1] + 256 * data[pos + 2]
        high == data[pos + 3] + 256 * data[pos + 4]
        low_sum == low + 7
        high_sum == (high + (low_sum \div 65536)) % 65536
    IN  high_sum * 8192 + ((low_sum % 65536) \div 8)

\* bit_count as the size_t handed to the block decoder.  From 2^30 on it is
\* kept as 2^30: more bits than any buffer here holds, which is all the
\* readers' comparisons ask of it
BitCountOf(data, pos) ==
    IF data[pos + 4] >= 64 THEN 2 ^ 30 ELSE ReadLE32(data, pos)

\* how many of the bytes at the payload pointer the reader has loaded after
\* it was asked for widths[lo], ..., widths[hi], rd holding its bit_pos, the
\* number of bytes loaded so far and whether it threw.  BitReaderMSB loads the
\* bytes of the bits it returns and stops at the read it throws on; the
\* BitReaderLSB of frame.cpp loads up to 8 bytes from the byte of bit_pos,
\* those below (total_bits + 7) / 8
RECURSIVE BytesRead(_, _, _, _, _, _)
BytesRead(use_lsb, widths, lo, hi, rd, total_bits) ==
    IF hi < lo \/ rd.thrown THEN rd
    ELSE IF lo < hi
    THEN LET mid == (hi + lo) \div 2
         IN  BytesRead(use_lsb, widths, mid + 1, hi,
                       BytesRead(use_lsb, widths, lo, mid, rd, total_bits), total_bits)
    ELSE IF widths[lo] = 0 THEN rd
    ELSE IF use_lsb
    THEN [bit_pos |-> rd.bit_pos + widths[lo],
          reach |-> Max(rd.reach, Min((total_bits + 7) \div 8,
                                      (rd.bit_pos \div 8) + 8)),
          thrown |-> FALSE]
    ELSE IF rd.bit_pos + widths[lo] > total_bits THEN [rd EXCEPT !.thrown = TRUE]
    ELSE [bit_pos |-> rd.bit_pos + widths[lo],
          reach |-> (rd.bit_pos + widths[lo] + 7) \div 8,
          thrown |-> FALSE]

\* whether the record at pos is complete: histogram and payload inside the frame
RecordComplete(data, pos) ==
    /\ pos + HeaderWordsBytes + HistogramBytes <= Len(data)
    /\ pos + HeaderWordsBytes + HistogramBytes + PayloadBytes(data, pos + 4)
         <= Len(data)

\* the record's table_log, taken from the caller's options
RecordTableLogFromOptions(data, pos, o) == o.table_log

\* the record's table_log: the third header word
RecordTableLog(data, pos, o) == ReadLE32(data, pos + 8)

\* FSEParams params(counts, table_log) of the record at pos, when it is complete
RecordParams(data, pos, o) ==
    IF RecordComplete(data, pos)
    THEN FSEParams(RecordCounts(data, pos), RecordTableLog(data, pos, o))
    ELSE NoValue

\* while (pos + sizeof(uint32_t) * 3 <= size)
MoreRecords(data, pos) == pos + HeaderWordsBytes <= Len(data)

\* one iteration of decode_stream's loop, from pos (pos + 12 <= size), with
\* the params p and tables tb built from the record's histogram and table_log;
\* ndebug tells whether the build compiles assert() out.  The block decoder is
\* handed the pointer data + ppos: what it loads is whatever lies there, up to
\* the end of the buffer, and a load behind the end is undefined behaviour.
\* A block_size that differs from blk_sz and is larger than the loop can go on
\* reading bits for is not gone through iteration by iteration
DecodeRecord(data, pos, o, p, tb, ndebug) ==
    LET size == Len(data)
        blk_sz == ReadLE32(data, pos)
        bit_count == BitCountOf(data, pos + 4)
        tlog == RecordTableLog(data, pos, o)
        cpos == pos + HeaderWordsBytes
        ppos == cpos + HistogramBytes
        payload_bytes == PayloadBytes(data, pos + 4)
    IN  IF cpos + HistogramBytes > size
        THEN [outcome |-> "return_empty", why |-> "histogram"]
        ELSE IF ppos + payload_bytes > size
        THEN [outcome |-> "return_empty", why |-> "payload"]
        ELSE IF ~p.ok \/ ~tb.ok
        THEN [outcome |-> "throw", why |-> "params"]
        ELSE IF BytesRead(o.use_lsb, <<tb.data_block_size_bits>>, 1, 1,
                          [bit_pos |-> 0, reach |-> 0, thrown |-> FALSE],
                          bit_count).reach > size - ppos
        THEN [outcome |-> "undefined", why |-> "read_past_end"]
        ELSE IF LongBlock(data, ppos, blk_sz, bit_count, o, tb)
        THEN LET payload == SubSeq(data, ppos + 1, size)
                 res == DecodeLongBlock(IF o.use_lsb THEN "lsbframe" ELSE "msb",
                                        payload, bit_count, tb,
                                        IterationCap(size - ppos, bit_count, tb))
                 reads == <<tb.data_block_size_bits, tb.table_log>> \o res.nb_bits
             IN  IF BytesRead(o.use_lsb, reads, 1, Len(reads),
                              [bit_pos |-> 0, reach |-> 0, thrown |-> FALSE],
                              bit_count).reach > size - ppos
                 THEN [outcome |-> "undefined", why |-> "read_past_end"]
                 ELSE IF ~res.ok
                 THEN [outcome |-> "throw", why |-> res.error]
                 ELSE IF ~ndebug /\ ~o.use_lsb /\ res.state # 0
                 THEN [outcome |-> "abort", why |-> "assert(state == 0)"]
                 ELSE [outcome |-> "return_empty", why |-> "size"]
        ELSE LET payload == SubSeq(data, ppos + 1, size)
                 res == IF o.use_lsb
                        THEN decode_block_lsb(payload, bit_count, tb)
                        ELSE decode_block_impl("msb", payload, bit_count, tb, 0)
                 reads == IF res.block_size = 0 THEN <<tb.data_block_size_bits>>
                          ELSE <<tb.data_block_size_bits, tb.table_log>> \o res.nb_bits
             IN  IF BytesRead(o.use_lsb, reads, 1, Len(reads),
                              [bit_pos |-> 0, reach |-> 0, thrown |-> FALSE],
                              bit_count).reach > size - ppos
                 THEN [outcome |-> "undefined", why |-> "read_past_end"]
                 ELSE IF ~res.ok
                 THEN [outcome |-> "throw", why |-> res.error]
                 ELSE IF ~ndebug /\ ~o.use_lsb /\ res.block_size # 0 /\ res.state # 0
                 THEN [outcome |-> "abort", why |-> "assert(state == 0)"]
                 ELSE IF Len(res.symbols) # blk_sz
                 THEN [outcome |-> "return_empty", why |-> "size"]
                 ELSE [outcome |-> "continue",
                       symbols |-> res.symbols,
                       pos |-> ppos + payload_bytes,
                       log |-> [blk_sz |-> blk_sz,
                                bit_count |-> bit_count,
                                table_log |-> tlog,
                                counts |-> RecordCounts(data, pos),
                                symbols |-> res.symbols,
                                nb_bits |-> res.nb_bits,
                                state |-> res.state,
                                payload_at |-> ppos,
                                payload_bytes |-> payload_bytes]]

\* the offsets at which the records of a frame start, in frame order
RECURSIVE RecordStarts(_, _)
RecordStarts(data, pos) ==
    IF pos + HeaderWordsBytes + HistogramBytes > Len(data) THEN <<>>
    ELSE <<pos>>
         \o RecordStarts(data, pos + HeaderWordsBytes + HistogramBytes
                               + ((ReadLE32(data, pos + 4) + 7) \div 8))

(***************************************************************************)
(* Specification Spec: encode_stream of an input of up to MaxInputLen      *)
(* bytes, then decode_stream of the frame with the same options.           *)
(***************************************************************************)
FrameOptions ==
    [block_size : 0..MaxBlockSize, table_log : 1..MaxTableLog, use_lsb : BOOLEAN]

Init ==
    /\ pc = "encode"
    /\ input \in SymbolSeqs(0, MaxInputLen)
    /\ opts \in FrameOptions
    /\ enc_pos = 0
    /\ frame = <<>>
    /\ written = <<>>
    /\ dec_pos = 0
    /\ output = <<>>
    /\ visited = <<>>
    /\ buffer = <<>>
    /\ dec_opts = opts
    /\ damage = NoDamage
    /\ counts = <<>>
    /\ table_log = 0
    /\ params = NoValue
    /\ tables = NoValue
    /\ IdleBlock /\ IdleWriters

\* encode_stream: one block is encoded and its record appended to the frame
EncodeStreamBlock ==
    /\ pc = "encode"
    /\ MoreInput(input, enc_pos)
    /\ \E p \in {FSEParams(BlockCounts(input, enc_pos,
                                       Len(ChunkAt(input, enc_pos, opts))),
                           opts.table_log)} :
       \E tb \in {TablesFor(p)} :
       \E r \in {EncodeRecord(input, enc_pos, opts, p, tb)} :
           IF r.ok
           THEN /\ frame' = frame \o r.bytes
                /\ written' = Append(written, r.log)
                /\ enc_pos' = enc_pos + r.chunk
                /\ pc' = pc
           ELSE /\ pc' = "encode_threw"
                /\ UNCHANGED <<frame, written, enc_pos>>
    /\ UNCHANGED <<input, opts, dec_pos, output, visited, buffer, dec_opts, damage,
                   paramVars, tables, blockVars, writerVars>>

\* encode_stream: the input is used up, the frame is returned; its bytes are
\* what decode_stream is handed next
EncodeStreamReturn ==
    /\ pc = "encode"
    /\ ~MoreInput(input, enc_pos)
    /\ pc' = "decode"
    /\ buffer' = frame
    /\ UNCHANGED <<input, opts, enc_pos, frame, written, dec_pos, output, visited,
                   dec_opts, damage, paramVars, tables, blockVars, writerVars>>

\* decode_stream: one record is read and its block decoded
DecodeStreamBlock ==
    /\ pc = "decode"
    /\ MoreRecords(buffer, dec_pos)
    /\ \E ndebug \in BOOLEAN :
       \E p \in {RecordParams(buffer, dec_pos, dec_opts)} :
       \E tb \in {IF RecordComplete(buffer, dec_pos) THEN TablesFor(p) ELSE NoValue} :
       \E r \in {DecodeRecord(buffer, dec_pos, dec_opts, p, tb, ndebug)} :
           CASE r.outcome = "continue" ->
                    /\ output' = output \o r.symbols
                    /\ visited' = Append(visited, r.log)
                    /\ dec_pos' = r.pos
                    /\ pc' = pc
             [] r.outcome = "return_empty" ->
                    /\ output' = <<>>
                    /\ pc' = "decode_failed"
                    /\ UNCHANGED <<visited, dec_pos>>
             [] r.outcome = "throw" ->
                    /\ output' = <<>>
                    /\ pc' = "decode_threw"
                    /\ UNCHANGED <<visited, dec_pos>>
             [] r.outcome = "abort" ->
                    /\ output' = <<>>
                    /\ pc' = "decode_aborted"
                    /\ UNCHANGED <<visited, dec_pos>>
             [] r.outcome = "undefined" ->
                    \* a load behind the end of the buffer: the process is
                    \* killed, or the call goes on with what lay there
                    /\ pc' \in {"decode_crashed", "decode_garbage"}
                    /\ output' \in IF pc' = "decode_crashed" THEN {<<>>}
                                   ELSE SymbolSeqs(0, 1)
                    /\ UNCHANGED <<visited, dec_pos>>
    /\ UNCHANGED <<input, opts, enc_pos, frame, written, buffer, dec_opts, damage,
                   paramVars, tables, blockVars, writerVars>>

\* decode_stream: fewer than 12 bytes are left, output is returned
DecodeStreamReturn ==
    /\ pc = "decode"
    /\ ~MoreRecords(buffer, dec_pos)
    /\ pc' = "decoded"
    /\ UNCHANGED <<frameVars, paramVars, tables, blockVars, writerVars>>

Next ==
    \/ EncodeStreamBlock
    \/ EncodeStreamReturn
    \/ DecodeStreamBlock
    \/ DecodeStreamReturn

Spec == Init /\ [][Next]_vars


(***************************************************************************)
(* Specification SpecDamaged: encode_stream as in Spec, then the frame is  *)
(* handed to decode_stream as it is, with one payload bit flipped, or cut  *)
(* short.                                                                  *)
(***************************************************************************)
DamagedOptions ==
    [block_size : 0..1, table_log : 1..MaxDamagedTableLog, use_lsb : BOOLEAN]

InitDamaged ==
    /\ pc = "encode"
    /\ input \in SymbolSeqs(1, MaxDamagedLen)
    /\ opts \in DamagedOptions
    /\ enc_pos = 0
    /\ frame = <<>>
    /\ written = <<>>
    /\ dec_pos = 0
    /\ output = <<>>
    /\ visited = <<>>
    /\ buffer = <<>>
    /\ dec_opts = opts
    /\ damage = NoDamage
    /\ counts = <<>>
    /\ table_log = 0
    /\ params = NoValue
    /\ tables = NoValue
    /\ IdleBlock /\ IdleWriters

\* data with bit b (0 the least significant) of byte byte_idx (from 0) inverted
FlipBitAt(data, byte_idx, b) ==
    [data EXCEPT ![byte_idx + 1] =
        IF (@ \div (2 ^ b)) % 2 = 1 THEN @ - 2 ^ b ELSE @ + 2 ^ b]

\* where stream bit t of a payload is stored: byte t / 8, at bit 7 - t % 8 in
\* MSB ordering and at bit t % 8 in LSB ordering
StoredBit(use_lsb, t) == IF use_lsb THEN t % 8 ELSE 7 - (t % 8)

\* the bit of the 32-bit block_size field that stream bit t carries (t < 32)
SizeFieldBit(use_lsb, t) == IF use_lsb THEN t ELSE kDataBlockSizeBits - 1 - t

\* where the payload of record k starts in the frame
PayloadStart(k) ==
    RecordStarts(frame, 0)[k] + HeaderWordsBytes + HistogramBytes

\* one bit of the payload of record k is inverted before decode_stream is called
FlipPayloadBit(k, t) ==
    /\ pc = "decode"
    /\ damage = NoDamage
    /\ dec_pos = 0
    /\ k \in 1..Len(written)
    /\ t \in 0..(8 * Len(written[k].payload) - 1)
    /\ t < kDataBlockSizeBits => SizeFieldBit(opts.use_lsb, t) < FlippedSizeBits
    /\ buffer' = FlipBitAt(frame, PayloadStart(k) + (t \div 8),
                           StoredBit(opts.use_lsb, t))
    /\ damage' = [kind |-> "flip", record |-> k, bit |-> t]
    /\ UNCHANGED <<pc, input, opts, enc_pos, frame, written, dec_pos, output, visited,
                   dec_opts, paramVars, tables, blockVars, writerVars>>

\* decode_stream is called with the first n bytes of the frame only
CutFrame(n) ==
    /\ pc = "decode"
    /\ damage = NoDamage
    /\ dec_pos = 0
    /\ n \in 0..(Len(frame) - 1)
    /\ buffer' = SubSeq(frame, 1, n)
    /\ damage' = [kind |-> "cut", length |-> n]
    /\ UNCHANGED <<pc, input, opts, enc_pos, frame, written, dec_pos, output, visited,
                   dec_opts, paramVars, tables, blockVars, writerVars>>

NextDamaged ==
    \/ EncodeStreamBlock
    \/ EncodeStreamReturn
    \/ \E k \in 1..MaxDamagedLen + 1 :
           \E t \in 0..(8 * ((kDataBlockSizeBits + 7) \div 8 + MaxDamagedLen + 2)) :
               FlipPayloadBit(k, t)
    \/ \E n \in 0..Len(frame) : CutFrame(n)
    \/ DecodeStreamBlock
    \/ DecodeStreamReturn

SpecDamaged == InitDamaged /\ [][NextDamaged]_vars


(***************************************************************************)
(* Specification SpecOptions: encode_stream as in Spec, then decode_stream *)
(* of the frame with options whose table_log and block_size are the        *)
(* caller's own.                                                           *)
(***************************************************************************)
\* decode_stream(data, size, o) as a function of its arguments: the loop of
\* DecodeStreamBlock from pos on, out being the output so far
RECURSIVE DecodeStreamFrom(_, _, _, _, _)
DecodeStreamFrom(data, pos, o, out, ndebug) ==
    IF ~MoreRecords(data, pos) THEN [status |-> "returned", output |-> out]
    ELSE LET p == RecordParams(data, pos, o)
             tb == IF RecordComplete(data, pos) THEN TablesFor(p) ELSE NoValue
             r == DecodeRecord(data, pos, o, p, tb, ndebug)
         IN  CASE r.outcome = "continue" ->
                      DecodeStreamFrom(data, r.pos, o, out \o r.symbols, ndebug)
               [] r.outcome = "return_empty" -> [status |-> "returned", output |-> <<>>]
               [] r.outcome = "throw" -> [status |-> "threw", output |-> <<>>]
               [] r.outcome = "abort" -> [status |-> "aborted", output |-> <<>>]
               [] r.outcome = "undefined" -> [status |-> "undefined", output |-> <<>>]

decode_stream(data, o, ndebug) == DecodeStreamFrom(data, 0, o, <<>>, ndebug)

\* what the decode_stream call of the specification at hand came to
DecodeStreamResult ==
    [status |-> CASE pc \in {"decoded", "decode_failed"} -> "returned"
                  [] pc = "decode_threw" -> "threw"
                  [] pc = "decode_aborted" -> "aborted",
     output |-> output]

\* the options decode_stream may be handed for a frame written with o
DecodeOptionsFor(o) ==
    [block_size : 0..1, table_log : 1..MaxTableLog, use_lsb : {o.use_lsb}]

InitOptions ==
    /\ pc = "encode"
    /\ input \in SymbolSeqs(0, MaxDamagedLen)
    /\ opts \in DamagedOptions
    /\ dec_opts \in DecodeOptionsFor(opts)
    /\ enc_pos = 0
    /\ frame = <<>>
    /\ written = <<>>
    /\ dec_pos = 0
    /\ output = <<>>
    /\ visited = <<>>
    /\ buffer = <<>>
    /\ damage = NoDamage
    /\ counts = <<>>
    /\ table_log = 0
    /\ params = NoValue
    /\ tables = NoValue
    /\ IdleBlock /\ IdleWriters

NextOptions ==
    \/ EncodeStreamBlock
    \/ EncodeStreamReturn
    \/ DecodeStreamBlock
    \/ DecodeStreamReturn

SpecOptions == InitOptions /\ [][NextOptions]_vars


(***************************************************************************)
(* Specification SpecSwapped: encode_stream as in Spec, then decode_stream *)
(* of the frame with the other ordering.  The inputs are those of Spec     *)
(* without the empty one, and one of 65792 equal bytes in a single block:  *)
(* 65792 is 00 01 01 00 in both byte orders.                               *)
(***************************************************************************)
InitSwapped ==
    /\ pc = "encode"
    /\ \/ /\ input \in SymbolSeqs(1, MaxInputLen)
          /\ opts \in FrameOptions
       \/ /\ input = [i \in 1..(65536 + 256) |-> 0]
          /\ opts \in [block_size : {0}, table_log : {1}, use_lsb : BOOLEAN]
    /\ dec_opts = [opts EXCEPT !.use_lsb = ~@]
    /\ enc_pos = 0
    /\ frame = <<>>
    /\ written = <<>>
    /\ dec_pos = 0
    /\ output = <<>>
    /\ visited = <<>>
    /\ buffer = <<>>
    /\ damage = NoDamage
    /\ counts = <<>>
    /\ table_log = 0
    /\ params = NoValue
    /\ tables = NoValue
    /\ IdleBlock /\ IdleWriters

NextSwapped ==
    \/ EncodeStreamBlock
    \/ EncodeStreamReturn
    \/ DecodeStreamBlock
    \/ DecodeStreamReturn

SpecSwapped == InitSwapped /\ [][NextSwapped]_vars


(***************************************************************************)
(* Specification SpecHeader: decode_stream handed a buffer that no encoder *)
(* need have written: one record whose header words are any of a few       *)
(* values, bit_count among them values next to 2^32, followed by up to     *)
(* 4 + MaxTail bytes, the buffer cut anywhere.                             *)
(***************************************************************************)
InitHeader ==
    /\ pc = "decode"
    /\ dec_opts \in [block_size : {0}, table_log : {1}, use_lsb : BOOLEAN]
    /\ opts = dec_opts
    /\ \E blk_sz \in 0..2, tlog \in 1..2, block_size \in 0..2 :
       \E cnt \in [0..(NumSymbols - 1) -> 0..1] :
       \E bit_count \in {LE32(b) : b \in {0, 8, 31, 32, 33, 35, 40}}
                        \cup {<<b, 255, 255, 255>> : b \in {248, 249, 255}} :
       \E extra \in [1..MaxTail -> {0, 255}] :
           LET size_field == IF dec_opts.use_lsb THEN LE32(block_size)
                             ELSE <<0, 0, 0, block_size>>
               record == LE32(blk_sz) \o bit_count \o LE32(tlog)
                         \o CountsBytes(cnt, NumSymbols) \o size_field \o extra
           IN  \E size \in 0..Len(record) : buffer = SubSeq(record, 1, size)
    /\ input = <<>>
    /\ enc_pos = 0
    /\ frame = <<>>
    /\ written = <<>>
    /\ dec_pos = 0
    /\ output = <<>>
    /\ visited = <<>>
    /\ damage = NoDamage
    /\ counts = <<>>
    /\ table_log = 0
    /\ params = NoValue
    /\ tables = NoValue
    /\ IdleBlock /\ IdleWriters

NextHeader ==
    \/ DecodeStreamBlock
    \/ DecodeStreamReturn

SpecHeader == InitHeader /\ [][NextHeader]_vars


(***************************************************************************)
(* Specification SpecWriter: the four bit writers, reset, fed the same     *)
(* append_bits calls (at most MaxAppends of them) and finished once.       *)
(***************************************************************************)
\* widths handed to append_bits
Widths == {0, 5, 8, 32}

\* values handed to append_bits with width n: one that fits n bits and one with
\* a bit set above them (numbers stay below 2^31)
ValuesFor(n) ==
    CASE n = 0 -> {0, 1}
      [] n = 32 -> {5, 2147483647}
      [] OTHER -> {2 ^ n - 2, 2 ^ n + 1}

InitWriter ==
    /\ pc = "appending"
    /\ writers = [k \in WriterKinds |-> WriterReset(k)]
    /\ appended = <<>>
    /\ finished = NoValue
    /\ readers = NoValue
    /\ counts = <<>>
    /\ table_log = 0
    /\ params = NoValue
    /\ tables = NoValue
    /\ IdleBlock /\ IdleFrame

\* writer.append_bits(value, nbits), on each writer
AppendBits(value, nbits) ==
    /\ pc = "appending"
    /\ Len(appended) < MaxAppends
    /\ writers' = [k \in WriterKinds |-> WriterAppend(k, writers[k], value, nbits)]
    /\ appended' = Append(appended, <<value, nbits>>)
    /\ UNCHANGED <<pc, finished, readers, paramVars, tables, blockVars, frameVars>>

\* writer.finish(), on each writer
FinishWriters ==
    /\ pc = "appending"
    /\ finished' = [k \in WriterKinds |-> WriterFinish(k, writers[k])]
    /\ pc' = "finished"
    /\ UNCHANGED <<writers, appended, readers, paramVars, tables, blockVars, frameVars>>

\* the reader that reads what writer `kind` wrote
ReaderFor(kind) ==
    CASE kind = "msb" -> "msb"
      [] kind = "lsb8" -> "lsb"
      [] kind = "lsbwide" -> "lsb"
      [] kind = "lsbframe" -> "lsbframe"

\* the sum of the widths of the first k append_bits calls
RECURSIVE WidthsAppended(_)
WidthsAppended(k) == IF k = 0 THEN 0 ELSE WidthsAppended(k - 1) + appended[k][2]

\* byte values found behind the end of a buffer that is over-read
PadBytes == {0, 255}

\* how many append_bits calls lie before the offset a reader starts at
SkippedCalls == {0, 1}

\* widths handed to read_bits by a caller that reads what it likes (a 32-bit
\* result with its top bit set is not a number TLC holds)
AnyWidths == {0, 5, 8}

\* Reader(bytes.data(), bit_count, offset_bits) over each writer's bytes, the
\* offset being where the append_bits call after the first `skip` calls began
OpenReaders(skip) ==
    /\ pc = "finished"
    /\ skip <= Len(appended)
    /\ readers' = [skipped |-> skip,
                   start |-> WidthsAppended(skip),
                   of |-> [k \in WriterKinds |->
                              [pos |-> WidthsAppended(skip), results |-> <<>>]]]
    /\ pc' = "reading"
    /\ UNCHANGED <<writers, appended, finished, paramVars, tables, blockVars, frameVars>>

\* reader.read_bits(nbits) and reader.position(), on the reader of writer `kind`
ReadStep(kind, rd, nbits, fill) ==
    LET r == ReaderRead(ReaderFor(kind), finished[kind].bytes, finished[kind].bit_count,
                        rd.pos, nbits, fill)
    IN  [pos |-> r.pos,
         results |-> Append(rd.results,
                            [nbits |-> nbits,
                             from |-> rd.pos,
                             ok |-> r.ok,
                             value |-> IF r.ok THEN r.value ELSE NoValue,
                             position |-> r.pos])]

\* read_bits with the widths of the append_bits calls from call `from` on, in
\* the order of the calls
RECURSIVE ReadWidths(_, _, _, _)
ReadWidths(kind, rd, from, fill) ==
    IF from > Len(appended) THEN rd
    ELSE ReadWidths(kind, ReadStep(kind, rd, appended[from][2], fill), from + 1, fill)

\* the bits the append_bits calls wrote are read back, each with the width of
\* its call, on each reader
ReadBack ==
    /\ pc = "reading"
    /\ readers.of["msb"].results = <<>>
    /\ \E fill \in PadBytes :
          readers' = [readers EXCEPT !.of =
                         [k \in WriterKinds |->
                             ReadWidths(k, readers.of[k], readers.skipped + 1, fill)]]
    /\ pc' = "read_back"
    /\ UNCHANGED <<writers, appended, finished, paramVars, tables, blockVars, frameVars>>

NextWriter ==
    \/ \E nbits \in Widths : \E value \in ValuesFor(nbits) : AppendBits(value, nbits)
    \/ FinishWriters

SpecWriter == InitWriter /\ [][NextWriter]_vars

(***************************************************************************)
(* Specification SpecReader: the writers as in SpecWriter, fed at most     *)
(* MaxReadBack calls and finished; then a reader is opened over each       *)
(* writer's bytes, and either reads back what was appended or is handed    *)
(* read_bits calls of any width (appends and such reads together at most   *)
(* MaxReadBack).                                                           *)
(***************************************************************************)
\* writer.append_bits(value, nbits), on each writer that is read afterwards
AppendBitsToRead(value, nbits) ==
    /\ Len(appended) < MaxReadBack
    /\ AppendBits(value, nbits)

\* reader.read_bits(nbits), on each reader
ReadBits(nbits) ==
    /\ pc = "reading"
    /\ Len(appended) + Len(readers.of["msb"].results) < MaxReadBack
    /\ \E fill \in PadBytes :
          readers' = [readers EXCEPT !.of =
                         [k \in WriterKinds |-> ReadStep(k, readers.of[k], nbits, fill)]]
    /\ UNCHANGED <<pc, writers, appended, finished, paramVars, tables, blockVars,
                   frameVars>>

NextReader ==
    \/ \E nbits \in Widths : \E value \in ValuesFor(nbits) :
           AppendBitsToRead(value, nbits)
    \/ FinishWriters
    \/ \E skip \in SkippedCalls : OpenReaders(skip)
    \/ ReadBack
    \/ \E nbits \in AnyWidths : ReadBits(nbits)

SpecReader == InitWriter /\ [][NextReader]_vars


(***************************************************************************)
(* Properties.                                                             *)
(***************************************************************************)
\* every symbol of the block has a state of its own in the block's tables
AllSymbolsCoded == \A i \in 1..Len(symbols) : params.normalized[symbols[i]] >= 1

\* C2: a non-empty block whose tables come from its own histogram, every symbol
\* of it holding normalized >= 1, decodes to the symbols that were encoded, for
\* the MSB pair and for the LSB pairs.
C2_BlockRoundTrip ==
    (pc = "decoded" /\ AllSymbolsCoded) =>
        (decoded.ok /\ decoded.symbols = symbols)

C2_Witness ==
    /\ pc = "decoded"
    /\ AllSymbolsCoded
    /\ ordering = "lsb8"
    /\ Cardinality({symbols[i] : i \in 1..Len(symbols)}) = NumSymbols
    /\ table_log = 3
    /\ decoded.symbols = symbols

\* C3: a constructed FSEParams holds a normalized vector that sums to
\* table_size = 1 << table_log, whichever path the constructor took.
C3_NormalizedSum ==
    (pc = "constructed" /\ params.ok) =>
        /\ params.table_size = 2 ^ table_log
        /\ Accumulate(params.normalized) = params.table_size

C3_Witness ==
    /\ pc = "constructed"
    /\ params.ok
    /\ params.path = "last_resort"
    /\ Accumulate(params.normalized) = params.table_size

\* C4: after construction with table_log in 1..15, normalized[s] >= 1 exactly
\* when counts[s] > 0.
C4_PositiveIffCounted ==
    (pc = "constructed" /\ params.ok /\ table_log \in 1..kMaxTableLog) =>
        \A s \in DOMAIN counts : (params.normalized[s] >= 1) <=> (counts[s] > 0)

\* C5: construction fails when counts is empty, when the counts sum to 0 and
\* when table_log is greater than 15; every value constructed has table_log <= 15.
C5_InvalidParamsRejected ==
    (pc = "constructed") =>
        /\ (Size(counts) = 0 \/ Accumulate(counts) = 0 \/ table_log > kMaxTableLog)
              => ~params.ok
        /\ params.ok => params.table_log <= kMaxTableLog

\* the slots of the spread that hold symbol s
SlotsOf(s) == {u \in DOMAIN tables.spread : tables.spread[u] = s}

\* C6: FSETables fills every spread slot exactly once, symbol s takes exactly
\* normalized[s] slots, no symbol is written twice and the placement never fails.
C6_SpreadCoverage ==
    (pc = "built") =>
        /\ tables.ok
        /\ DOMAIN tables.spread = 0..(tables.table_size - 1)
        /\ \A u \in DOMAIN tables.spread : tables.spread[u] # EmptySlot
        /\ Len(tables.writes) = tables.table_size
        /\ \A i, j \in 1..Len(tables.writes) :
              i # j => tables.writes[i][1] # tables.writes[j][1]
        /\ \A s \in DOMAIN params.normalized :
              Cardinality(SlotsOf(s)) = params.normalized[s]

C6_Witness ==
    /\ pc = "built"
    /\ tables.ok
    /\ table_log = 3
    /\ tables.scans > 0
    /\ \A s \in DOMAIN params.normalized : params.normalized[s] >= 1
    /\ Len(tables.writes) = tables.table_size

\* C7: decoding a non-empty block that encode_block produced with the same
\* tables and ordering leaves the decoder in state 0.
C7_DecoderTerminalState ==
    (pc = "decoded") => (decoded.ok /\ decoded.state = 0)

C7_Witness ==
    /\ pc = "decoded"
    /\ ordering = "msb"
    /\ Len(symbols) = MaxLen
    /\ \E i \in 1..Len(decoded.nb_bits) : decoded.nb_bits[i] > 0
    /\ encoded.final_state # tables.table_size
    /\ decoded.state = 0


RECURSIVE SumOfWidths(_, _)
SumOfWidths(calls, n) == IF n = 0 THEN 0 ELSE calls[n][2] + SumOfWidths(calls, n - 1)

\* C9: whatever append_bits calls a writer received after its reset, finishing
\* once returns their widths' sum as bit_count and ceil(bit_count / 8) bytes.
C9_WriterBitCount ==
    (pc = "finished") =>
        \A k \in WriterKinds :
            /\ finished[k].bit_count = SumOfWidths(appended, Len(appended))
            /\ Len(finished[k].bytes) = (finished[k].bit_count + 7) \div 8

C9_Witness ==
    /\ pc = "finished"
    /\ Len(appended) = MaxAppends
    /\ SumOfWidths(appended, Len(appended)) = 77
    /\ Len(finished["lsbwide"].bytes) = 10
    /\ \A k \in WriterKinds : finished[k].bit_count = 77

\* C1: decode_stream of the frame encode_stream produced, under the same
\* options, returns the input: neither call fails and the output is the input.
C1_StreamRoundTrip ==
    /\ pc \notin {"encode_threw", "decode_failed", "decode_threw"}
    /\ (pc = "decoded" => output = input)

RECURSIVE SumSeq(_, _)
SumSeq(q, n) == IF n = 0 THEN 0 ELSE q[n] + SumSeq(q, n - 1)

\* the encoder's nb_out, one per symbol of the block
NbOutsOf(trace) == [i \in 1..Len(trace) |-> trace[i].nb_out]

\* C8: the bit_count of every record encode_stream wrote is 32 + table_log +
\* the sum of the encoder's nb_out over the block, and 32 + table_log + the sum
\* of nb_bits of the decode entries visited when the record is decoded.
C8_BitCountExact ==
    /\ \A k \in 1..Len(written) :
           written[k].bit_count =
               kDataBlockSizeBits + written[k].table_log
               + SumSeq(NbOutsOf(written[k].trace), Len(written[k].trace))
    /\ \A k \in 1..Len(visited) :
           written[k].bit_count =
               kDataBlockSizeBits + written[k].table_log
               + SumSeq(visited[k].nb_bits, Len(visited[k].nb_bits))

\* the block_size words of the records of a frame, in frame order
RECURSIVE DeclaredSizes(_, _)
DeclaredSizes(data, pos) ==
    IF pos + HeaderWordsBytes + HistogramBytes > Len(data) THEN <<>>
    ELSE <<ReadLE32(data, pos)>>
         \o DeclaredSizes(data, pos + HeaderWordsBytes + HistogramBytes
                                + ((ReadLE32(data, pos + 4) + 7) \div 8))

\* C10: a frame of n > 0 input bytes under block_size B holds ceil(n / B)
\* records (one when B = 0), in input order; every record but the last declares
\* B, the last declares what is left, and the declared sizes sum to n.
C10_Chunking ==
    (pc = "decode" /\ Len(input) > 0) =>
        LET n == Len(input)
            B == IF opts.block_size = 0 THEN n ELSE opts.block_size
            records == (n + B - 1) \div B
            sizes == DeclaredSizes(frame, 0)
        IN  /\ Len(sizes) = records
            /\ Len(written) = records
            /\ \A k \in 1..(records - 1) : sizes[k] = B
            /\ sizes[records] = n - B * (records - 1)
            /\ SumSeq(sizes, records) = n
            /\ \A k \in 1..records :
                   written[k].symbols
                       = SubSeq(input, B * (k - 1) + 1, B * (k - 1) + sizes[k])

C10_Witness ==
    /\ pc = "decode"
    /\ Len(input) = 3
    /\ opts.block_size = 2
    /\ DeclaredSizes(frame, 0) = <<2, 1>>
    /\ written[2].symbols = <<input[3]>>

\* C11 as stated: the frame of the empty input holds one record, of
\* block_size 0 and no payload, and decode_stream of it returns the empty
\* sequence.
C11_EmptyInputRecord ==
    (input = <<>> /\ pc \in {"decode", "decoded"}) =>
        /\ DeclaredSizes(frame, 0) = <<0>>
        /\ Len(frame) = HeaderWordsBytes + HistogramBytes
        /\ (pc = "decoded" => output = <<>>)

\* C11 amended: encode_stream of the empty input writes no record at all, the
\* frame has no bytes, and decode_stream of it returns the empty sequence
\* without failing.
C11_EmptyInputEmptyFrame ==
    (input = <<>>) =>
        /\ pc \notin {"encode_threw", "decode_failed", "decode_threw"}
        /\ frame = <<>>
        /\ written = <<>>
        /\ visited = <<>>
        /\ (pc = "decoded" => output = <<>>)

C11_Witness ==
    /\ input = <<>>
    /\ pc = "decoded"
    /\ frame = <<>>
    /\ output = <<>>

\* C12: in every record of the frame the header's counts[b] is the number of
\* occurrences of b among the symbols of that record's block, for every b.
C12_HistogramPreserved ==
    (pc = "decode") =>
        LET starts == RecordStarts(frame, 0)
        IN  /\ Len(starts) = Len(written)
            /\ \A k \in 1..Len(starts) :
                   LET blk == SubSeq(input, written[k].offset + 1,
                                     written[k].offset + ReadLE32(frame, starts[k]))
                   IN  \A b \in Symbols :
                           ReadLE32(frame, starts[k] + HeaderWordsBytes + 4 * b)
                               = Cardinality({i \in 1..Len(blk) : blk[i] = b})

C12_Witness ==
    /\ pc = "decode"
    /\ Len(written) = 2
    /\ input = <<0, 0, 1>>
    /\ opts.block_size = 2
    /\ RecordCounts(frame, RecordStarts(frame, 0)[2]) = HistogramOf(<<1>>, NumSymbols)
    /\ RecordCounts(frame, 0) # HistogramOf(input, NumSymbols)


\* C13: when one bit inside a block's payload of a valid frame was flipped,
\* decode_stream reports an error: it does not abort on an assertion, does not
\* return successfully (least of all with bytes that differ from the input),
\* and no block yields more symbols than its header's block_size.
C13_CorruptedPayloadRejected ==
    damage.kind = "flip" =>
        /\ pc \notin {"decoded", "decode_aborted"}
        /\ ~(pc = "decoded" /\ output # input)
        /\ \A k \in 1..Len(visited) : Len(visited[k].symbols) <= visited[k].blk_sz


\* C14: a read_bits(n) call with n > 0 that would end behind total_bits fails
\* with the out-of-bits error and returns no value, on BitReaderMSB, on
\* BitReaderLSB and on the LSB reader of frame.cpp.
C14_ReadPastEndFails ==
    pc = "reading" =>
        \A k \in WriterKinds :
            \A i \in 1..Len(readers.of[k].results) :
                LET r == readers.of[k].results[i]
                IN  (r.nbits > 0 /\ r.from + r.nbits > finished[k].bit_count) => ~r.ok


\* C15: decode_stream of a strict prefix of a valid frame that does not end on
\* a record boundary reports an error (the empty vector or an exception); it
\* does not return the symbols of the leading complete blocks.
C15_NoSilentTruncation ==
    (/\ damage.kind = "cut"
     /\ \A k \in 1..Len(written) : RecordStarts(frame, 0)[k] # damage.length) =>
        /\ pc # "decode_aborted"
        /\ pc = "decoded" => output = <<>>


\* what decode_stream met in the block at dec_pos
BlockMet ==
    LET p == RecordParams(buffer, dec_pos, dec_opts)
        tb == IF RecordComplete(buffer, dec_pos) THEN TablesFor(p) ELSE NoValue
    IN  DecodeRecord(buffer, dec_pos, dec_opts, p, tb, TRUE)

\* C16: when decode_stream meets a failing block (its histogram cut short, fewer
\* than ceil(bit_count / 8) payload bytes left, the bit stream running out
\* during decode, or a symbol count different from the header's block_size), it
\* returns the empty vector, with none of the symbols of the blocks before it.
C16_AnyBlockFailsFrame ==
    (/\ pc \in {"decode_failed", "decode_threw"}
     /\ BlockMet.why \in {"histogram", "payload", "out_of_bits", "size"}) =>
        (pc = "decode_failed" /\ output = <<>>)


\* C17: decode_stream takes each block's table_log from the block's header and
\* not from the caller's options: the result of decoding a buffer is the same
\* under any two FrameOptions that differ in table_log and block_size only.
C17_HeaderTableLogUsed ==
    pc \in {"decoded", "decode_failed", "decode_threw", "decode_aborted"} =>
        \A o \in DecodeOptionsFor(dec_opts) :
            \E ndebug \in BOOLEAN :
                decode_stream(buffer, o, ndebug) = DecodeStreamResult

C17_Witness ==
    /\ pc = "decoded"
    /\ dec_opts.table_log # opts.table_log
    /\ dec_opts.block_size # opts.block_size
    /\ Len(visited) = 2
    /\ output = input


\* bit b (0 the least significant) of byte number k (from 0) of bytes
StoredAt(bytes, k, b) == (bytes[k + 1] \div (2 ^ b)) % 2

\* the bits the first k append_bits calls put on an MSB-first stream: of each
\* call the nbits low bits of value, the most significant of them first
RECURSIVE StreamMSB(_)
StreamMSB(k) ==
    IF k = 0 THEN <<>>
    ELSE StreamMSB(k - 1)
         \o [j \in 1..appended[k][2] |-> BitOf(appended[k][1], appended[k][2] - j)]

\* C18: after any sequence of BitWriterMSB.append_bits calls, stream bit i is
\* stored in byte i / 8 at bit 7 - (i mod 8), each call having contributed the
\* nbits low bits of its value, most significant first, and the unused bits of
\* the last byte are 0; finish hands out these bytes and the number of bits.
C18_MSBLayout ==
    pc \in {"appending", "finished"} =>
        LET w == writers["msb"]
            bits == StreamMSB(Len(appended))
        IN  /\ w.bit_len = Len(bits)
            /\ Len(w.bytes) = (Len(bits) + 7) \div 8
            /\ \A i \in 0..(8 * Len(w.bytes) - 1) :
                   StoredAt(w.bytes, i \div 8, 7 - (i % 8))
                       = IF i < Len(bits) THEN bits[i + 1] ELSE 0
            /\ pc = "finished" =>
                   finished["msb"] = [bytes |-> w.bytes, bit_count |-> Len(bits)]

C18_Witness ==
    /\ pc = "finished"
    /\ Len(appended) = MaxAppends
    /\ finished["msb"].bit_count % 8 # 0
    /\ \E k \in 1..Len(appended) :
           appended[k][2] > 0 /\ appended[k][1] >= 2 ^ Min(appended[k][2], 30)
    /\ \E k \in 1..Len(appended) : appended[k][2] = 32
    /\ \E j \in 1..Len(finished["msb"].bytes) : finished["msb"].bytes[j] \notin {0, 255}


\* the bits the first k append_bits calls put on an LSB-first stream: of each
\* call the nbits low bits of value, the least significant of them first
RECURSIVE StreamLSB(_)
StreamLSB(k) ==
    IF k = 0 THEN <<>>
    ELSE StreamLSB(k - 1)
         \o [j \in 1..appended[k][2] |-> BitOf(appended[k][1], j - 1)]

\* C19: for BitWriterLSB8, BitWriterLSBWide and the BitWriterLSB of frame.cpp,
\* after any sequence of append_bits calls and finish, stream bit i is stored in
\* byte i / 8 at bit i mod 8, each call having contributed the nbits low bits of
\* its value, least significant first; the bits of a value at positions >= nbits
\* change no stored bit.
C19_LSBLayout ==
    pc = "finished" =>
        \A kind \in {"lsb8", "lsbwide", "lsbframe"} :
            LET f == finished[kind]
                bits == StreamLSB(Len(appended))
            IN  /\ f.bit_count = Len(bits)
                /\ Len(f.bytes) = (Len(bits) + 7) \div 8
                /\ \A i \in 0..(8 * Len(f.bytes) - 1) :
                       StoredAt(f.bytes, i \div 8, i % 8)
                           = IF i < Len(bits) THEN bits[i + 1] ELSE 0


\* value is below 2^nbits (every value is when nbits is 32)
Fits(value, nbits) == nbits >= 31 \/ value < 2 ^ nbits

\* C20: when every appended value is below 2^nbits and the finished bytes are
\* read by the reader of the same ordering with the widths of the calls, every
\* read_bits returns the value appended (a number below 2^nbits), and position()
\* never decreases and is, after each read, the starting offset plus the sum of
\* the widths read so far.
C20_BitIORoundTrip ==
    (/\ pc = "read_back"
     /\ \A k \in 1..Len(appended) : Fits(appended[k][1], appended[k][2])) =>
        \A kind \in WriterKinds :
            LET rd == readers.of[kind]
            IN  /\ Len(rd.results) = Len(appended) - readers.skipped
                /\ \A i \in 1..Len(rd.results) :
                       LET r == rd.results[i]
                           call == appended[readers.skipped + i]
                       IN  /\ r.ok
                           /\ r.nbits = call[2]
                           /\ r.value = call[1]
                           /\ Fits(r.value, r.nbits)
                           /\ r.from <= r.position
                           /\ r.position = readers.start
                                  + WidthsAppended(readers.skipped + i)
                                  - WidthsAppended(readers.skipped)
                /\ rd.pos = finished[kind].bit_count

C20_Witness ==
    /\ pc = "read_back"
    /\ \A k \in 1..Len(appended) : Fits(appended[k][1], appended[k][2])
    /\ Len(appended) = MaxReadBack
    /\ readers.skipped = 1
    /\ readers.start = 5
    /\ \E k \in 2..Len(appended) : appended[k][2] = 32 /\ appended[k][1] > 5
    /\ \E k \in 2..Len(appended) : appended[k][2] = 8
    /\ \A kind \in WriterKinds : Len(readers.of[kind].results) = MaxReadBack - 1


\* C22: for every table_log the constructors accept, the encode-table entry
\* stored for slot u is table_size + u, a state in [table_size, 2 * table_size),
\* and the stored new_state_base is (next << nb_bits) - table_size: the 16-bit
\* storage truncates neither.
C22_StatesFitSixteenBits ==
    pc = "stored" =>
        LET nb_bits == tables.table_log - floor_log2(Max(1, tables.next_state_enc))
        IN  /\ tables.stored_state = tables.table_size + tables.slot
            /\ tables.stored_state >= tables.table_size
            /\ tables.stored_state < 2 * tables.table_size
            /\ tables.entry.new_state_base
                   = tables.next_state_enc * (2 ^ nb_bits) - tables.table_size

\* C23: when the rounded allocation does not sum to table_size, the normalized
\* vector is the one reached by walking the symbols in stable descending-count
\* order with one +1 (gap above 0) or one -1 (gap below 0, entries above 1
\* only) per visited symbol until the gap is closed (the histograms that fall
\* through to the single-symbol fallback are left aside).
C23_AdjustmentWalk ==
    (pc = "constructed" /\ params.ok /\ params.path # "last_resort") =>
        LET alloc == InitialAllocation(counts, params.table_size)
        IN  params.normalized
                = RepeatAdjust(alloc, params.table_size - Accumulate(alloc),
                               SymbolOrder(counts))

\* C24: for every table_log the step of the spread walk shares no divisor with
\* table_size, and the spread is built without the linear scan.
C24_CoprimeStride ==
    (pc = "built" /\ tables.ok) =>
        LET tsize == tables.table_size
            step == SpreadStep(tsize)
        IN  /\ \A d \in 2..tsize : ~(tsize % d = 0 /\ step % d = 0)
            /\ tables.scans = 0

\* C25: for a table_log in 1..15, a frequency of at least 1 and a state in
\* [table_size, 2 * table_size), the encoder's nb_out is max_bits_out or
\* max_bits_out - 1, with max_bits_out = table_log - floor_log2(freq - 1) for
\* freq > 1 and table_log for freq = 1; so nb_out lies in 0..table_log.
C25_NbOutRange ==
    (pc = "stored" /\ table_log \in 1..kMaxTableLog) =>
        LET max_bits_out == IF tables.freq > 1
                            THEN table_log - floor_log2(tables.freq - 1)
                            ELSE table_log
        IN  /\ tables.nb_out \in {max_bits_out, max_bits_out - 1}
            /\ tables.nb_out >= 0
            /\ tables.nb_out <= table_log

\* a state in the low part of the range of a symbol of frequency 3, in the
\* largest documented table
C25_Witness ==
    /\ pc = "stored"
    /\ table_log = kMaxTableLog
    /\ tables.freq = 3
    /\ tables.state >= tables.table_size
    /\ tables.state < 3 * (2 ^ (table_log - 1))
    /\ tables.nb_out = table_log - 2

\* C26: when every symbol of the block has a normalized frequency of at least
\* 1, at each step of the encoder, which starts from table_size, the index
\* (state >> nb_out) + delta_find_state[s] lies in [cumul[s], cumul[s] +
\* normalized[s]) and the new state lies in [table_size, 2 * table_size) with
\* spread[state - table_size] = s; the final state is in that range too.
C26_EncoderStateInvariant ==
    (pc \in {"encoded", "decoded"}
        /\ \A i \in 1..Len(symbols) : tables.normalized[symbols[i]] >= 1) =>
        LET trace == encoded.trace
            tsize == tables.table_size
            cumul == Cumul(tables.normalized)
            After(i) == IF i < Len(trace) THEN trace[i + 1].from
                        ELSE encoded.final_state
        IN  /\ Len(trace) = Len(symbols)
            /\ trace[1].from = tsize
            /\ ~encoded.out_of_table
            /\ \A i \in 1..Len(trace) :
                   LET s == trace[i].symbol
                   IN  /\ trace[i].idx >= cumul[s]
                       /\ trace[i].idx < cumul[s] + tables.normalized[s]
                       /\ After(i) >= tsize
                       /\ After(i) < 2 * tsize
                       /\ tables.spread[After(i) - tsize] = s

\* a block of MaxLen symbols, two of them different, encoded over a table in
\* which one symbol owns more than one state
C26_Witness ==
    /\ pc = "encoded"
    /\ Len(symbols) = MaxLen
    /\ \A i \in 1..Len(symbols) : tables.normalized[symbols[i]] >= 1
    /\ \E i, j \in 1..Len(symbols) : symbols[i] # symbols[j]
    /\ \E i \in 1..Len(symbols) : tables.normalized[symbols[i]] > 1
    /\ encoded.final_state > tables.table_size

\* C27: in every record encode_stream wrote, every symbol of the block has a
\* normalized frequency of at least 1 in the block's tables, so the encoder
\* never reads the symbol transform of a symbol of frequency 0.
C27_NoZeroFrequencySymbolEncoded ==
    \A k \in 1..Len(written) :
        \A i \in 1..Len(written[k].trace) :
            written[k].normalized[written[k].trace[i].symbol] >= 1

\* C28: for every symbol s of frequency at least 1 and every encoder state x in
\* [table_size, 2 * table_size), the encoder step on s from x emits nb_out bits
\* of value bits and moves to a state y whose decode entry, at y - table_size,
\* has symbol s, nb_bits = nb_out and new_state_base + bits = x - table_size.
C28_SingleStepDuality ==
    (pc = "built" /\ tables.ok) =>
        \A s \in DOMAIN tables.normalized :
            tables.normalized[s] >= 1 =>
                \A x \in tables.table_size..(2 * tables.table_size - 1) :
                    LET st == EncodeStep([state |-> x, out_of_table |-> FALSE,
                                          chunk_vals |-> <<>>, chunk_bits |-> <<>>,
                                          trace |-> <<>>], s, tables)
                        y == st.state
                        nb_out == st.chunk_bits[1]
                        bits == st.chunk_vals[1]
                    IN  /\ ~st.out_of_table
                        /\ y - tables.table_size \in DOMAIN tables.dtable
                        /\ tables.dtable[y - tables.table_size].symbol = s
                        /\ tables.dtable[y - tables.table_size].nb_bits = nb_out
                        /\ tables.dtable[y - tables.table_size].new_state_base + bits
                               = x - tables.table_size

\* the tables of the largest table_log, built without the linear scan, in
\* which one symbol owns three states and the steps emit different bit counts
C28_Witness ==
    /\ pc = "built"
    /\ tables.ok
    /\ table_log = MaxTableLog
    /\ tables.scans = 0
    /\ \E s \in DOMAIN tables.normalized : tables.normalized[s] = 3
    /\ \E u, v \in DOMAIN tables.dtable :
           /\ tables.dtable[u].symbol = tables.dtable[v].symbol
           /\ tables.dtable[u].nb_bits # tables.dtable[v].nb_bits

\* C29: every decode entry u of built tables satisfies new_state_base[u] +
\* 2^nb_bits[u] - 1 <= table_size - 1, and a state read in table_log bits is
\* below table_size; so whatever bits the payload holds, the state reached from
\* any entry is again an index of the decode table.
C29_DecoderStaysInTable ==
    (pc = "built" /\ tables.ok) =>
        /\ DOMAIN tables.dtable = 0..(tables.table_size - 1)
        /\ 2 ^ tables.table_log - 1 < tables.table_size
        /\ \A u \in DOMAIN tables.dtable :
               LET entry == tables.dtable[u]
               IN  /\ entry.new_state_base + 2 ^ entry.nb_bits - 1
                          <= tables.table_size - 1
                   /\ \A bits_val \in 0..(2 ^ entry.nb_bits - 1) :
                          entry.new_state_base + bits_val \in DOMAIN tables.dtable

\* tables of the largest table_log with an entry that reads two bits or more
\* and whose largest next state is the last slot of the table
C29_Witness ==
    /\ pc = "built"
    /\ tables.ok
    /\ table_log = MaxTableLog
    /\ \E u \in DOMAIN tables.dtable :
           /\ tables.dtable[u].nb_bits >= 2
           /\ tables.dtable[u].new_state_base + 2 ^ tables.dtable[u].nb_bits
                  = tables.table_size
    /\ \E u \in DOMAIN tables.dtable : tables.dtable[u].nb_bits = 0

\* C30: decode_stream loads no byte at an index at or behind the size of its
\* buffer: every block handed to the block decoder has ceil(bit_count / 8)
\* payload bytes left in the buffer, and the block decoder loads no byte
\* behind the buffer's end.
C30_NoReadBehindBuffer ==
    /\ pc \notin {"decode_crashed", "decode_garbage"}
    /\ \A k \in 1..Len(visited) :
           visited[k].payload_at + ((visited[k].bit_count + 7) \div 8) <= Len(buffer)

\* C21: cross-ordering independence.  For every non-empty input, a frame
\* written with one ordering and decoded with the other ends in an error or in
\* bytes different from the input: decode_stream never returns the original
\* input.
C21_CrossOrderingNeverOriginal ==
    (/\ Len(input) > 0
     /\ dec_opts.use_lsb # opts.use_lsb
     /\ pc = "decoded") => output # input

\* C21 as it holds: the same for every non-empty input whose blocks are shorter
\* than 65792 bytes, the smallest size whose 32-bit field reads the same in
\* both orderings.  The decode ends, without a load behind the buffer, in an
\* error or in bytes different from the input.
C21_CrossOrderingShortBlocks ==
    (/\ Len(input) > 0
     /\ EffectiveBlockSize(opts.block_size, Len(input)) < 65536 + 256
     /\ dec_opts.use_lsb # opts.use_lsb)
        => /\ pc \notin {"decode_crashed", "decode_garbage"}
           /\ pc = "decoded" => output # input

\* an input of MaxInputLen bytes in one block, written in one ordering and
\* read in the other: the decode has ended at the first block with an error
C21_Witness ==
    /\ Len(input) = MaxInputLen
    /\ opts.block_size = 0
    /\ dec_opts.use_lsb # opts.use_lsb
    /\ Len(buffer) > 0
    /\ pc \in {"decode_failed", "decode_threw"}
    /\ visited = <<>>

====
